---- MODULE Spec2Model ----
(***************************************************************************)
(* A model of the tinyhiera resolver (package tinyhiera, resolver with a   *)
(* Logger): Resolve, parseHierarchy, the {{ expr }} template expander, the *)
(* lookup() host function, numeric normalisation, the merges and the clone *)
(* helpers.                                                                *)
(*                                                                         *)
(* Go maps and slices are references.  The model keeps them in a heap: a   *)
(* sequence of nodes, an address being an index.  A value is a scalar      *)
(* record or a reference [k |-> "ref", a |-> address].  Every operator     *)
(* that allocates or writes threads the heap through and returns           *)
(* [h |-> heap, v |-> value].                                              *)
(*                                                                         *)
(* A Go string is a sequence of characters.  The characters of the model   *)
(* are "{", "}", " ", "|" and atoms such as "role:" or "lookup('env')";    *)
(* an atom stands for a run of characters none of which is a brace, a      *)
(* space or a bar.                                                         *)
(***************************************************************************)
EXTENDS Integers, Sequences, FiniteSets, TLC

(***************************************************************************)
(* Values                                                                  *)
(***************************************************************************)
Null == [k |-> "null"]
Bool(b) == [k |-> "bool", b |-> b]
Str(s) == [k |-> "string", s |-> s]
\* A number of Go type ty with value n/d; d is 1 or 2, and n is odd when d = 2.
Num(ty, n, d) == [k |-> "num", ty |-> ty, n |-> n, d |-> d]
GoInt(n) == Num("int", n, 1)
\* The lookup closure genExprEnv stores in the environment.
Func == [k |-> "func"]
Ref(a) == [k |-> "ref", a |-> a]
\* A nil map[string]any.
NilMap == [k |-> "nilmap"]
\* Heap nodes and, with trees as children instead of values, structural trees.
MapNode(m) == [k |-> "map", m |-> m]
SeqNode(s) == [k |-> "seq", s |-> s]
EmptyMap == MapNode(<<>>)

IsRef(v) == v.k = "ref"
IsMapVal(h, v) == v.k = "nilmap" \/ (v.k = "ref" /\ h[v.a].k = "map")
IsSeqVal(h, v) == v.k = "ref" /\ h[v.a].k = "seq"
\* The entries of a map value; a nil map reads as empty.
Entries(h, v) == IF v.k = "nilmap" THEN <<>> ELSE h[v.a].m
HasKey(h, v, key) == key \in DOMAIN Entries(h, v)
Elems(h, v) == h[v.a].s

\* e's value under the name F binds.
Bind(e, F(_)) == CHOOSE r \in {F(x) : x \in {e}} : TRUE

\* The function f on the keys of D.
RECURSIVE Restrict(_, _)
Restrict(f, D) ==
    IF D = {} THEN <<>>
    ELSE LET x == CHOOSE y \in D : TRUE
         IN (x :> f[x]) @@ Restrict(f, D \ {x})
\* make([]any, n)
RECURSIVE NilSlice(_)
NilSlice(n) == IF n = 0 THEN <<>> ELSE Append(NilSlice(n - 1), Null)

Alloc(h, node) == [h |-> Append(h, node), v |-> Ref(Len(h) + 1)]
\* m[key] = val on the map at address a.
SetKey(h, a, key, val) ==
    [h EXCEPT ![a] = MapNode((key :> val) @@ h[a].m)]
\* delete(m, key)
DelKey(h, a, key) ==
    [h EXCEPT ![a] = MapNode(Restrict(h[a].m, DOMAIN h[a].m \ {key}))]
\* s[i] = val on the slice at address a.
SetElem(h, a, i, val) == [h EXCEPT ![a] = SeqNode([h[a].s EXCEPT ![i] = val])]

(***************************************************************************)
(* Trees: the structure below a value, and the decoded input of a caller.  *)
(***************************************************************************)
RECURSIVE Deref(_, _)
Deref(h, v) ==
    IF v.k = "nilmap" THEN EmptyMap
    ELSE IF v.k # "ref" THEN v
    ELSE IF h[v.a].k = "map"
         THEN MapNode([x \in DOMAIN h[v.a].m |-> Deref(h, h[v.a].m[x])])
         ELSE SeqNode([i \in 1..Len(h[v.a].s) |-> Deref(h, h[v.a].s[i])])

\* The addresses of the Mapping and Sequence nodes reachable from a value.
RECURSIVE Reach(_, _)
Reach(h, v) ==
    IF v.k # "ref" THEN {}
    ELSE {v.a} \cup
         (IF h[v.a].k = "map"
          THEN UNION {Reach(h, h[v.a].m[x]) : x \in DOMAIN h[v.a].m}
          ELSE UNION {Reach(h, h[v.a].s[i]) : i \in 1..Len(h[v.a].s)})

RECURSIVE Build(_, _)
RECURSIVE BuildMap(_, _, _, _)
RECURSIVE BuildSeq(_, _, _, _)
BuildMap(h, a, t, keys) ==
    IF keys = {} THEN h
    ELSE LET key == CHOOSE x \in keys : TRUE
         IN Bind(Build(h, t.m[key]),
                 LAMBDA c : BuildMap(SetKey(c.h, a, key, c.v), a, t, keys \ {key}))
BuildSeq(h, a, t, i) ==
    IF i > Len(t.s) THEN h
    ELSE Bind(Build(h, t.s[i]),
              LAMBDA c : BuildSeq(SetElem(c.h, a, i, c.v), a, t, i + 1))
\* The caller's allocation of a decoded tree.
Build(h, t) ==
    IF t.k = "map"
    THEN Bind(Alloc(h, EmptyMap),
              LAMBDA r : [h |-> BuildMap(r.h, r.v.a, t, DOMAIN t.m), v |-> r.v])
    ELSE IF t.k = "seq"
    THEN Bind(Alloc(h, SeqNode(NilSlice(Len(t.s)))),
              LAMBDA r : [h |-> BuildSeq(r.h, r.v.a, t, 1), v |-> r.v])
    ELSE [h |-> h, v |-> t]

(***************************************************************************)
(* Clone helpers                                                           *)
(***************************************************************************)
RECURSIVE cloneValue(_, _)
RECURSIVE cloneMapLoop(_, _, _, _)
RECURSIVE cloneSliceLoop(_, _, _, _)
cloneMapLoop(h, src, dst, keys) ==
    IF keys = {} THEN h
    ELSE LET key == CHOOSE x \in keys : TRUE
         IN Bind(cloneValue(h, Entries(h, src)[key]),
                 LAMBDA c : cloneMapLoop(SetKey(c.h, dst, key, c.v), src, dst,
                                         keys \ {key}))
\* A cloneMap that makes no copy: the map it is given.
cloneMapAlias(h, source) == [h |-> h, v |-> source]
\* cloneMap: result := make(map); result[key] = cloneValue(value) for every key.
cloneMap(h, source) ==
    Bind(Alloc(h, EmptyMap),
         LAMBDA r : [h |-> cloneMapLoop(r.h, source, r.v.a,
                                        DOMAIN Entries(h, source)),
                     v |-> r.v])
cloneSliceLoop(h, src, dst, i) ==
    IF i > Len(Elems(h, src)) THEN h
    ELSE Bind(cloneValue(h, Elems(h, src)[i]),
              LAMBDA c : cloneSliceLoop(SetElem(c.h, dst, i, c.v), src, dst, i + 1))
\* A cloneSlice that copies the elements as they are: copy(result, source).
cloneSliceShallow(h, source) == Alloc(h, SeqNode(Elems(h, source)))
\* cloneSlice: result := make([]any, len(source)); result[i] = cloneValue(value).
cloneSlice(h, source) ==
    Bind(Alloc(h, SeqNode(NilSlice(Len(Elems(h, source))))),
         LAMBDA r : [h |-> cloneSliceLoop(r.h, source, r.v.a, 1), v |-> r.v])
\* A cloneValue that hands every value on as it is: clones are shallow.
cloneValueShallow(h, value) == [h |-> h, v |-> value]
\* cloneValue: the switch over map[string]any, []any and any other value.
cloneValue(h, value) ==
    IF IsMapVal(h, value) THEN cloneMap(h, value)
    ELSE IF IsSeqVal(h, value) THEN cloneSlice(h, value)
    ELSE [h |-> h, v |-> value]

(***************************************************************************)
(* normalizeNumericValues                                                  *)
(***************************************************************************)
\* The width of the platform's int, scaled down; int64 and uint64 are wider.
IntBits == 4
maxInt == 2 ^ (IntBits - 1) - 1
minInt == -maxInt - 1

\* The numeric cases of the type switch.
normalizeNumber(x) ==
    CASE x.ty = "int64" ->
           IF x.n >= minInt /\ x.n <= maxInt THEN GoInt(x.n) ELSE x
      [] x.ty \in {"uint64", "uint", "uint32"} ->
           IF x.n <= maxInt THEN GoInt(x.n) ELSE x
      [] x.ty = "float64" ->
           IF x.d = 1 /\ x.n >= minInt /\ x.n <= maxInt THEN GoInt(x.n) ELSE x
      [] x.ty \in {"int", "int8", "int16", "int32"} -> x
      [] x.ty \in {"uint8", "uint16"} -> GoInt(x.n)
      [] OTHER -> x

RECURSIVE normalizeNumericValues(_, _)
RECURSIVE normalizeMapLoop(_, _, _, _)
RECURSIVE normalizeSliceLoop(_, _, _, _)
normalizeMapLoop(h, src, dst, keys) ==
    IF keys = {} THEN h
    ELSE LET key == CHOOSE x \in keys : TRUE
         IN Bind(normalizeNumericValues(h, Entries(h, src)[key]),
                 LAMBDA c : normalizeMapLoop(SetKey(c.h, dst, key, c.v), src, dst,
                                             keys \ {key}))
normalizeSliceLoop(h, src, dst, i) ==
    IF i > Len(Elems(h, src)) THEN h
    ELSE Bind(normalizeNumericValues(h, Elems(h, src)[i]),
              LAMBDA c : normalizeSliceLoop(SetElem(c.h, dst, i, c.v), src, dst,
                                            i + 1))
normalizeNumericValues(h, value) ==
    IF IsMapVal(h, value)
    THEN Bind(Alloc(h, EmptyMap),
              LAMBDA r : [h |-> normalizeMapLoop(r.h, value, r.v.a,
                                                 DOMAIN Entries(h, value)),
                          v |-> r.v])
    ELSE IF IsSeqVal(h, value)
    THEN Bind(Alloc(h, SeqNode(NilSlice(Len(Elems(h, value))))),
              LAMBDA r : [h |-> normalizeSliceLoop(r.h, value, r.v.a, 1),
                          v |-> r.v])
    ELSE IF value.k = "num" THEN [h |-> h, v |-> normalizeNumber(value)]
    ELSE [h |-> h, v |-> value]

(***************************************************************************)
(* Strings                                                                 *)
(***************************************************************************)
Min(S) == CHOOSE x \in S : \A y \in S : x <= y
Max(S) == CHOOSE x \in S : \A y \in S : x >= y

\* strings.ToLower on an atom: the atoms that hold upper-case letters.
LowerChar(c) ==
    CASE c = "DEEP" -> "deep"
      [] c = "Deep" -> "deep"
      [] c = "FIRST" -> "first"
      [] c = "WEB" -> "web"
      [] c = "Bogus" -> "bogus"
      [] OTHER -> c
ToLower(s) == [i \in 1..Len(s) |-> LowerChar(s[i])]

\* strings.TrimSpace
TrimSpace(s) ==
    LET solid == {i \in 1..Len(s) : s[i] # " "}
    IN IF solid = {} THEN <<>> ELSE SubSeq(s, Min(solid), Max(solid))
HasPrefix2(s, c) == Len(s) >= 2 /\ s[1] = c /\ s[2] = c
HasSuffix2(s, c) == Len(s) >= 2 /\ s[Len(s)] = c /\ s[Len(s) - 1] = c

\* The decimal digits of a natural number.
RECURSIVE Digits(_)
Digit(n) == CASE n = 0 -> "0" [] n = 1 -> "1" [] n = 2 -> "2" [] n = 3 -> "3"
              [] n = 4 -> "4" [] n = 5 -> "5" [] n = 6 -> "6" [] n = 7 -> "7"
              [] n = 8 -> "8" [] n = 9 -> "9"
Digits(n) == IF n < 10 THEN <<Digit(n)>> ELSE Digits(n \div 10) \o <<Digit(n % 10)>>
Abs(n) == IF n < 0 THEN -n ELSE n
\* The text of the number n/d (d is 1 or 2), as strconv formats it.
FormatNumber(n, d) ==
    (IF n < 0 THEN <<"-">> ELSE <<>>)
    \o Digits(Abs(n) \div d)
    \o (IF d = 2 THEN <<".", "5">> ELSE <<>>)

(***************************************************************************)
(* The regular expression {{\s*(.*?)\s*}}                                  *)
(***************************************************************************)
OpenAt(s, i) == i + 1 <= Len(s) /\ s[i] = "{" /\ s[i + 1] = "{"
CloseAt(s, j) == j + 1 <= Len(s) /\ s[j] = "}" /\ s[j + 1] = "}"
Closes(s, i) == {j \in (i + 2)..Len(s) : CloseAt(s, j)}
\* The leftmost match at or after position p: fs..fe-1 is the whole match and
\* is..ie-1 the capture (the lazy group, between the two greedy \s*).
FindFrom(s, p) ==
    LET opens == {i \in p..Len(s) : OpenAt(s, i) /\ Closes(s, i) # {}}
    IN IF opens = {} THEN [found |-> FALSE]
       ELSE LET i == Min(opens)
                j == Min(Closes(s, i))
                is == Min({x \in (i + 2)..j : s[x] # " "})
                ie == Min({e \in is..j : \A x \in e..(j - 1) : s[x] = " "})
            IN [found |-> TRUE, fs |-> i, fe |-> j + 2, is |-> is, ie |-> ie]
RECURSIVE FindAllFrom(_, _)
FindAllFrom(s, p) ==
    LET m == FindFrom(s, p)
    IN IF m.found THEN <<m>> \o FindAllFrom(s, m.fe) ELSE <<>>
\* re.FindAllStringSubmatchIndex(template, -1); the empty sequence is nil.
FindAll(template) == FindAllFrom(template, 1)
Capture(template, m) == SubSeq(template, m.is, m.ie - 1)

(***************************************************************************)
(* The facts snapshot (encoding/json) and the path query (gjson)           *)
(***************************************************************************)
\* json.Marshal of a value, as the tree gjson reads back: a number keeps its
\* text only (a whole float64 is written without a point), so its Go type is
\* gone.
RECURSIVE Marshal(_, _)
Marshal(h, v) ==
    CASE v.k = "nilmap" -> Null
      [] v.k = "num" -> Num("json", v.n, v.d)
      [] v.k = "ref" /\ h[v.a].k = "map" ->
           MapNode([x \in DOMAIN h[v.a].m |-> Marshal(h, h[v.a].m[x])])
      [] v.k = "ref" /\ h[v.a].k = "seq" ->
           SeqNode([i \in 1..Len(h[v.a].s) |-> Marshal(h, h[v.a].s[i])])
      [] OTHER -> v
\* json.Marshal fails on a func value.
RECURSIVE Marshalable(_)
Marshalable(t) ==
    CASE t.k = "func" -> FALSE
      [] t.k = "map" -> \A x \in DOMAIN t.m : Marshalable(t.m[x])
      [] t.k = "seq" -> \A i \in 1..Len(t.s) : Marshalable(t.s[i])
      [] OTHER -> TRUE

\* The index a path segment names in an array of n elements, or 0.
ArrayIndex(seg, n) ==
    LET hits == {i \in 1..n : seg = Digits(i - 1)}
    IN IF hits = {} THEN 0 ELSE CHOOSE i \in hits : TRUE
\* gjson.GetBytes(j, path) for a path of keys and array indexes.
RECURSIVE GetPath(_, _)
GetPath(j, path) ==
    IF path = <<>> THEN [exists |-> TRUE, j |-> j]
    ELSE CASE j.k = "map" ->
                IF path[1] \in DOMAIN j.m
                THEN GetPath(j.m[path[1]], Tail(path))
                ELSE [exists |-> FALSE]
           [] j.k = "seq" ->
                IF ArrayIndex(path[1], Len(j.s)) # 0
                THEN GetPath(j.s[ArrayIndex(path[1], Len(j.s))], Tail(path))
                ELSE [exists |-> FALSE]
           [] OTHER -> [exists |-> FALSE]
gjsonGet(j, path) == IF path = <<>> THEN [exists |-> FALSE] ELSE GetPath(j, path)

\* gjson's Result.Value(): every number inside a container is a float64.
RECURSIVE gjsonValue(_)
gjsonValue(j) ==
    CASE j.k = "num" -> Num("float64", j.n, j.d)
      [] j.k = "map" -> MapNode([x \in DOMAIN j.m |-> gjsonValue(j.m[x])])
      [] j.k = "seq" -> SeqNode([i \in 1..Len(j.s) |-> gjsonValue(j.s[i])])
      [] OTHER -> j

\* A lookup that gives the empty string for every path that does not exist.
lookupNoDefault(h, j, path, hasDflt, dflt) ==
    LET res == gjsonGet(j, path)
    IN IF ~res.exists
       THEN [h |-> h, v |-> Str(<<>>)]
       ELSE IF res.j.k = "num"
       THEN [h |-> h,
             v |-> IF res.j.d # 1 THEN Num("float64", res.j.n, res.j.d)
                   ELSE Num("int64", res.j.n, 1)]
       ELSE Build(h, gjsonValue(res.j))
\* The lookup closure: lookup(key, args...) over the snapshot j.
lookup(h, j, path, hasDflt, dflt) ==
    LET res == gjsonGet(j, path)
    IN IF ~res.exists
       THEN [h |-> h, v |-> IF hasDflt THEN dflt ELSE Str(<<>>)]
       ELSE IF res.j.k = "num"
       THEN [h |-> h,
             v |-> IF res.j.d # 1 THEN Num("float64", res.j.n, res.j.d)
                   ELSE Num("int64", res.j.n, 1)]
       ELSE Build(h, gjsonValue(res.j))

NoErr == {}
\* A genExprEnv that keeps the environment it built first in a package
\* variable and hands it out from then on.
genExprEnvCached(h, facts) ==
    Bind({a \in 1..Len(h) : /\ h[a].k = "map"
                            /\ <<"lookup">> \in DOMAIN h[a].m
                            /\ h[a].m[<<"lookup">>].k = "func"}, LAMBDA cached :
        IF cached # {}
        THEN [h |-> h, env |-> Ref(Min(cached)),
              j |-> Marshal(DelKey(h, Min(cached), <<"lookup">>), Ref(Min(cached))),
              errs |-> NoErr]
        ELSE Bind(cloneMap(h, facts), LAMBDA c :
             Bind(DelKey(c.h, c.v.a, <<"lookup">>), LAMBDA h1 :
             Bind(Marshal(h1, c.v), LAMBDA j :
                 IF ~Marshalable(j)
                 THEN [h |-> h1, env |-> NilMap, j |-> Null,
                       errs |-> {[kind |-> "marshal"]}]
                 ELSE [h |-> SetKey(h1, c.v.a, <<"lookup">>, Func), env |-> c.v,
                       j |-> j, errs |-> NoErr]))))
\* genExprEnv: the environment (a clone of facts plus lookup) and its snapshot.
genExprEnv(h, facts) ==
    Bind(cloneMap(h, facts), LAMBDA c :
    Bind(DelKey(c.h, c.v.a, <<"lookup">>), LAMBDA h1 :
    Bind(Marshal(h1, c.v), LAMBDA j :
        IF ~Marshalable(j)
        THEN [h |-> h1, env |-> NilMap, j |-> Null, errs |-> {[kind |-> "marshal"]}]
        ELSE [h |-> SetKey(h1, c.v.a, <<"lookup">>, Func), env |-> c.v, j |-> j,
              errs |-> NoErr])))

(***************************************************************************)
(* The expression evaluator (expr-lang), for the expressions                *)
(*     primary ( "|" filter )*                                             *)
(* where a primary is a lookup call or a name of the environment and a     *)
(* filter is lower() or int().  Spaces between the tokens do not count.    *)
(***************************************************************************)
LookupAtoms == {"lookup('env')", "lookup('role')", "lookup('val')",
                "lookup('node.name')", "lookup('other','dflt')"}
\* The arguments of a lookup call.
LookupArgs(atom) ==
    CASE atom = "lookup('env')" ->
           [path |-> << <<"env">> >>, hasDflt |-> FALSE, dflt |-> Null]
      [] atom = "lookup('role')" ->
           [path |-> << <<"role">> >>, hasDflt |-> FALSE, dflt |-> Null]
      [] atom = "lookup('val')" ->
           [path |-> << <<"val">> >>, hasDflt |-> FALSE, dflt |-> Null]
      [] atom = "lookup('node.name')" ->
           [path |-> << <<"node">>, <<"name">> >>, hasDflt |-> FALSE, dflt |-> Null]
      [] atom = "lookup('other','dflt')" ->
           [path |-> << <<"other">> >>, hasDflt |-> TRUE, dflt |-> Str(<<"dflt">>)]
Filters == {"lower()", "int()"}

NotSpace(c) == c # " "
Tokens(query) == SelectSeq(query, NotSpace)
\* expr.Compile(query, expr.Env(env)): a name must be a key of env.
Compiles(h, env, toks) ==
    /\ Len(toks) % 2 = 1
    /\ toks[1] \in LookupAtoms \/ HasKey(h, env, <<toks[1]>>)
    /\ \A i \in 2..Len(toks) :
          IF i % 2 = 0 THEN toks[i] = "|" ELSE toks[i] \in Filters

\* strconv.Atoi on the text of a native int.
Atoi(s) ==
    LET hits == {n \in minInt..maxInt : FormatNumber(n, 1) = s}
    IN IF hits = {} THEN [ok |-> FALSE] ELSE [ok |-> TRUE, n |-> CHOOSE n \in hits : TRUE]
\* The builtins lower() and int(); a float64 is truncated toward zero.
ApplyFilter(f, v) ==
    CASE f = "lower()" ->
           IF v.k = "string" THEN [ok |-> TRUE, v |-> Str(ToLower(v.s))]
           ELSE [ok |-> FALSE]
      [] f = "int()" ->
           CASE v.k = "num" ->
                  [ok |-> TRUE,
                   v |-> GoInt((IF v.n < 0 THEN -1 ELSE 1) * (Abs(v.n) \div v.d))]
             [] v.k = "string" ->
                  IF Atoi(v.s).ok THEN [ok |-> TRUE, v |-> GoInt(Atoi(v.s).n)]
                  ELSE [ok |-> FALSE]
             [] OTHER -> [ok |-> FALSE]
RECURSIVE ApplyFilters(_, _, _)
ApplyFilters(toks, i, v) ==
    IF i > Len(toks) THEN [ok |-> TRUE, v |-> v]
    ELSE LET r == ApplyFilter(toks[i], v)
         IN IF r.ok THEN ApplyFilters(toks, i + 2, r.v) ELSE r

\* exprParse: [h, v, errs]; errs is the set of errors the call may return,
\* empty when it succeeds.
\* expr.Run on a compiled program.  Its error is returned as the library made
\* it: exprParse wraps only the compile error in the text of the query.
exprRun(g, query, toks) ==
    Bind(IF toks[1] \in LookupAtoms
         THEN LET a == LookupArgs(toks[1])
              IN lookup(g.h, g.j, a.path, a.hasDflt, a.dflt)
         ELSE [h |-> g.h, v |-> Entries(g.h, g.env)[<<toks[1]>>]],
         LAMBDA prim :
    Bind(ApplyFilters(toks, 3, prim.v), LAMBDA r :
        IF r.ok THEN [h |-> prim.h, v |-> r.v, errs |-> NoErr]
        ELSE [h |-> prim.h, v |-> Null,
              errs |-> {[kind |-> "run"]}]))
exprParse(h, query, facts) ==
    Bind(genExprEnv(h, facts), LAMBDA g :
        IF g.errs # NoErr THEN [h |-> g.h, v |-> Str(<<>>), errs |-> g.errs]
        ELSE IF ~Compiles(g.h, g.env, Tokens(query))
        THEN [h |-> g.h, v |-> Str(<<>>),
              errs |-> {[kind |-> "compile", expr |-> query]}]
        ELSE exprRun(g, query, Tokens(query)))

(***************************************************************************)
(* fmt.Sprint                                                              *)
(***************************************************************************)
\* The keys of the model in Go's sorted order (fmt prints a map by sorted key).
KeyOrder == << <<"env">>, <<"list">>, <<"log_level">>, <<"lookup">>, <<"name">>,
               <<"node">>, <<"other">>, <<"packages">>, <<"role">>, <<"tls">>,
               <<"val">>, <<"web">> >>
KeyRank(key) ==
    LET hits == {i \in 1..Len(KeyOrder) : KeyOrder[i] = key}
    IN IF hits = {} THEN Len(KeyOrder) + 1 ELSE Min(hits)
FirstKey(keys) == CHOOSE x \in keys : \A y \in keys : KeyRank(x) <= KeyRank(y)
RECURSIVE Sprint(_, _)
RECURSIVE SprintMap(_, _, _, _)
RECURSIVE SprintSeq(_, _, _)
SprintMap(h, v, keys, first) ==
    IF keys = {} THEN <<>>
    ELSE LET key == FirstKey(keys)
         IN (IF first THEN <<>> ELSE <<" ">>)
            \o key \o <<":">> \o Sprint(h, Entries(h, v)[key])
            \o SprintMap(h, v, keys \ {key}, FALSE)
SprintSeq(h, v, i) ==
    IF i > Len(Elems(h, v)) THEN <<>>
    ELSE (IF i = 1 THEN <<>> ELSE <<" ">>)
         \o Sprint(h, Elems(h, v)[i]) \o SprintSeq(h, v, i + 1)
Sprint(h, v) ==
    CASE v.k = "string" -> v.s
      [] v.k = "num" -> FormatNumber(v.n, v.d)
      [] v.k = "bool" -> IF v.b THEN <<"true">> ELSE <<"false">>
      [] v.k = "null" -> <<"<nil>">>
      [] v.k = "func" -> <<"0xfunc">>
      [] IsMapVal(h, v) ->
           <<"map[">> \o SprintMap(h, v, DOMAIN Entries(h, v), TRUE) \o <<"]">>
      [] IsSeqVal(h, v) -> <<"[">> \o SprintSeq(h, v, 1) \o <<"]">>

(***************************************************************************)
(* The template expander                                                   *)
(***************************************************************************)
\* A switch that counts every span as matched.
SpanMatchedAlways(value) == TRUE
\* The type switch of applyFactsString on one span's value.
SpanMatched(value) ==
    CASE value.k = "string" -> value.s # <<>>
      [] value.k = "null" -> FALSE
      [] OTHER -> TRUE

\* The loop of applyFactsString over the matches, from match i on.
RECURSIVE applyFactsStringLoop(_, _, _, _, _, _, _, _)
applyFactsStringLoop(h, template, facts, matches, i, lastIndex, result, matched) ==
    IF i > Len(matches)
    THEN [h |-> h,
          s |-> result \o SubSeq(template, lastIndex, Len(template)),
          matched |-> \E x \in 1..Len(matched) : matched[x],
          errs |-> NoErr]
    ELSE LET loc == matches[i]
         IN Bind(exprParse(h, Capture(template, loc), facts), LAMBDA e :
                IF e.errs # NoErr
                THEN [h |-> e.h, s |-> <<>>, matched |-> FALSE, errs |-> e.errs]
                ELSE applyFactsStringLoop(
                         e.h, template, facts, matches, i + 1, loc.fe,
                         result \o SubSeq(template, lastIndex, loc.fs - 1)
                                \o Sprint(e.h, e.v),
                         Append(matched, SpanMatched(e.v))))
\* An applyFactsString that reports every template without a span as matched.
applyFactsStringNoSpanMatched(h, template, facts) ==
    Bind(FindAll(template), LAMBDA matches :
        IF matches = <<>>
        THEN [h |-> h, s |-> template, matched |-> TRUE, errs |-> NoErr]
        ELSE applyFactsStringLoop(h, template, facts, matches, 1, 1, <<>>, <<>>))
\* applyFactsString: [h, s, matched, errs].
applyFactsString(h, template, facts) ==
    Bind(FindAll(template), LAMBDA matches :
        IF matches = <<>>
        THEN [h |-> h, s |-> template, matched |-> template # <<>>, errs |-> NoErr]
        ELSE applyFactsStringLoop(h, template, facts, matches, 1, 1, <<>>, <<>>))

\* An applyFactsTyped that always renders the template as a string.
applyFactsTypedAsString(h, template, facts) ==
    Bind(applyFactsString(h, template, facts), LAMBDA r :
        [h |-> r.h, v |-> Str(r.s), errs |-> r.errs])
\* applyFactsTyped: [h, v, errs].
applyFactsTyped(h, template, facts) ==
    Bind(TrimSpace(template), LAMBDA trimmed :
    Bind(FindAll(template), LAMBDA matches :
        CASE matches = <<>> -> [h |-> h, v |-> Str(template), errs |-> NoErr]
          [] /\ Len(matches) = 1
             /\ HasPrefix2(trimmed, "{")
             /\ HasSuffix2(trimmed, "}") ->
               exprParse(h, Capture(template, matches[1]), facts)
          [] OTHER ->
               Bind(applyFactsString(h, template, facts), LAMBDA r :
                   [h |-> r.h, v |-> Str(r.s), errs |-> r.errs])))

RECURSIVE expandExprValuesRecursively(_, _, _)
RECURSIVE expandMapLoop(_, _, _, _, _, _)
RECURSIVE expandSliceLoop(_, _, _, _, _)
\* for key, val := range src { dst[key] = expand(val) }.  A Go map is ranged
\* in any order and the first failure returns: errs collects the failure of
\* every key.
expandMapLoop(h, src, dst, facts, keys, errs) ==
    IF keys = {} THEN [h |-> h, errs |-> errs]
    ELSE LET key == CHOOSE x \in keys : TRUE
         IN Bind(expandExprValuesRecursively(h, Entries(h, src)[key], facts),
                 LAMBDA e :
                IF e.errs # NoErr
                THEN expandMapLoop(e.h, src, dst, facts, keys \ {key},
                                   errs \cup e.errs)
                ELSE expandMapLoop(SetKey(e.h, dst, key, e.v), src, dst, facts,
                                   keys \ {key}, errs))
expandSliceLoop(h, src, dst, facts, i) ==
    IF i > Len(Elems(h, src)) THEN [h |-> h, errs |-> NoErr]
    ELSE Bind(expandExprValuesRecursively(h, Elems(h, src)[i], facts), LAMBDA e :
             IF e.errs # NoErr THEN [h |-> e.h, errs |-> e.errs]
             ELSE expandSliceLoop(SetElem(e.h, dst, i, e.v), src, dst, facts,
                                  i + 1))
expandExprValuesRecursively(h, value, facts) ==
    CASE value.k = "string" -> applyFactsTyped(h, value.s, facts)
      [] IsMapVal(h, value) ->
           Bind(Alloc(h, EmptyMap), LAMBDA r :
           Bind(expandMapLoop(r.h, value, r.v.a, facts, DOMAIN Entries(h, value),
                              NoErr), LAMBDA l :
               [h |-> l.h, v |-> IF l.errs = NoErr THEN r.v ELSE Null,
                errs |-> l.errs]))
      [] IsSeqVal(h, value) ->
           Bind(Alloc(h, SeqNode(NilSlice(Len(Elems(h, value))))), LAMBDA r :
           Bind(expandSliceLoop(r.h, value, r.v.a, facts, 1), LAMBDA l :
               [h |-> l.h, v |-> IF l.errs = NoErr THEN r.v ELSE Null,
                errs |-> l.errs]))
      [] OTHER -> [h |-> h, v |-> value, errs |-> NoErr]
\* expandMapExprValues writes each expanded value back into the map it is given.
expandMapExprValues(h, value, facts) ==
    Bind(expandMapLoop(h, value, value.a, facts, DOMAIN Entries(h, value), NoErr),
         LAMBDA l : [h |-> l.h, v |-> IF l.errs = NoErr THEN value ELSE NilMap,
                     errs |-> l.errs])

(***************************************************************************)
(* The merges                                                              *)
(***************************************************************************)
RECURSIVE shallowMergeLoop(_, _, _, _)
shallowMergeLoop(h, dst, source, keys) ==
    IF keys = {} THEN h
    ELSE LET key == CHOOSE x \in keys : TRUE
         IN Bind(cloneValue(h, Entries(h, source)[key]), LAMBDA c :
                shallowMergeLoop(SetKey(c.h, dst, key, c.v), dst, source,
                                 keys \ {key}))
\* A shallowMerge in which the keys target has keep target's values.
shallowMergeKeepTarget(h, target, source) ==
    Bind(cloneMap(h, target), LAMBDA r :
        [h |-> shallowMergeLoop(r.h, r.v.a, source,
                                DOMAIN Entries(h, source) \ DOMAIN Entries(h, target)),
         v |-> r.v])
\* shallowMerge: result := cloneMap(target); result[key] = cloneValue(value).
shallowMerge(h, target, source) ==
    Bind(cloneMap(h, target), LAMBDA r :
        [h |-> shallowMergeLoop(r.h, r.v.a, source, DOMAIN Entries(h, source)),
         v |-> r.v])

\* An append that puts the incoming elements in front of the existing ones.
appendClonedFront(h, existing, incoming) ==
    Bind(cloneSlice(h, existing), LAMBDA c :
        IF Elems(c.h, incoming) = <<>> THEN c
        ELSE Alloc(c.h, SeqNode(Elems(c.h, incoming) \o Elems(c.h, c.v))))
\* append(cloneSlice(existing), incoming...): the clone itself when incoming is
\* empty, else a new array of the cloned elements and incoming's own elements.
appendCloned(h, existing, incoming) ==
    Bind(cloneSlice(h, existing), LAMBDA c :
        IF Elems(c.h, incoming) = <<>> THEN c
        ELSE Alloc(c.h, SeqNode(Elems(c.h, c.v) \o Elems(c.h, incoming))))

\* A merge that starts from the incoming map alone: the keys of the target
\* that the source does not have are lost.
deepMergeSourceOnly(h, target, source) == cloneMap(h, source)
RECURSIVE deepMerge(_, _, _)
RECURSIVE deepMergeLoop(_, _, _, _)
deepMergeLoop(h, dst, source, keys) ==
    IF keys = {} THEN h
    ELSE LET key == CHOOSE x \in keys : TRUE
             value == Entries(h, source)[key]
             existing == Entries(h, Ref(dst))[key]
         IN Bind(IF HasKey(h, Ref(dst), key) /\ IsMapVal(h, existing)
                    /\ IsMapVal(h, value)
                 THEN deepMerge(h, existing, value)
                 ELSE IF HasKey(h, Ref(dst), key) /\ IsSeqVal(h, existing)
                         /\ IsSeqVal(h, value)
                 THEN appendCloned(h, existing, value)
                 ELSE cloneValue(h, value),
                 LAMBDA m : deepMergeLoop(SetKey(m.h, dst, key, m.v), dst, source,
                                          keys \ {key}))
deepMerge(h, target, source) ==
    Bind(cloneMap(h, target), LAMBDA r :
        [h |-> deepMergeLoop(r.h, r.v.a, source, DOMAIN Entries(h, source)),
         v |-> r.v])

(***************************************************************************)
(* parseHierarchy                                                          *)
(***************************************************************************)
NoError == [kind |-> "none"]
SchemaError(msg) == [kind |-> "schema", msg |-> msg]
\* m[key].(map[string]any) and m[key].([]any) with the comma-ok form.
KeyIsMap(h, m, key) == HasKey(h, m, key) /\ IsMapVal(h, Entries(h, m)[key])
KeyIsSeq(h, m, key) == HasKey(h, m, key) /\ IsSeqVal(h, Entries(h, m)[key])
KeyIsString(h, m, key) == HasKey(h, m, key) /\ Entries(h, m)[key].k = "string"

\* parseHierarchy: [err, order, merge]; order is a []string, merge a string.
parseHierarchy(h, root) ==
    IF ~KeyIsMap(h, root, <<"hierarchy">>)
    THEN [err |-> SchemaError("hierarchy section is required"),
          order |-> <<>>, merge |-> <<>>]
    ELSE LET raw == Entries(h, root)[<<"hierarchy">>]
         IN IF ~KeyIsSeq(h, raw, <<"order">>)
            THEN [err |-> SchemaError("hierarchy.order must be a list"),
                  order |-> <<>>, merge |-> <<>>]
            ELSE LET orderSlice == Elems(h, Entries(h, raw)[<<"order">>])
                 IN IF \E i \in 1..Len(orderSlice) : orderSlice[i].k # "string"
                    THEN [err |-> SchemaError("hierarchy.order must contain only strings"),
                          order |-> <<>>, merge |-> <<>>]
                    ELSE [err |-> NoError,
                          order |-> [i \in 1..Len(orderSlice) |-> orderSlice[i].s],
                          merge |-> IF KeyIsString(h, raw, <<"merge">>)
                                    THEN Entries(h, raw)[<<"merge">>].s
                                    ELSE <<>>]

(***************************************************************************)
(* Resolve, one order entry at a time                                      *)
(***************************************************************************)
\* A mergeMode taken as it is written, "first" when empty.
mergeModeAsWritten(merge) == IF merge = <<>> THEN <<"first">> ELSE merge
\* mergeMode := strings.ToLower(hierarchy.Merge), "first" when empty.
mergeModeOf(merge) ==
    IF ToLower(merge) = <<>> THEN <<"first">> ELSE ToLower(merge)

\* The options of a call: the name of the base-data section.
DefaultOptions == [dataKey |-> <<"data">>]
\* An option reader that knows the default section only.
dataKeyLiteral(options) == <<"data">>
\* The section name the call seeds from and reserves as an alias.
dataKeyOf(options) == options.dataKey

\* A seeding that first expands every fragment of the overrides section and
\* fails when one of them fails.
seedBaseEager(h, root, facts, dataKey) ==
    LET frags == IF KeyIsMap(h, root, <<"overrides">>)
                 THEN {k \in DOMAIN Entries(h, Entries(h, root)[<<"overrides">>]) :
                          KeyIsMap(h, Entries(h, root)[<<"overrides">>], k)}
                 ELSE {}
        eager == UNION {expandMapExprValues(h,
                            Entries(h, Entries(h, root)[<<"overrides">>])[k],
                            facts).errs : k \in frags}
    IN IF KeyIsMap(h, root, dataKey)
       THEN Bind(cloneMap(h, Entries(h, root)[dataKey]), LAMBDA c :
            Bind(expandMapExprValues(c.h, c.v, facts), LAMBDA e :
                [h |-> e.h, hasData |-> TRUE, base |-> e.v,
                 errs |-> e.errs \cup eager]))
       ELSE Bind(Alloc(h, EmptyMap), LAMBDA r :
                [h |-> r.h, hasData |-> FALSE, base |-> r.v, errs |-> eager])
\* The seed: base is an empty map, or the expanded clone of root[dataKey].
seedBase(h, root, facts, dataKey) ==
    IF KeyIsMap(h, root, dataKey)
    THEN Bind(cloneMap(h, Entries(h, root)[dataKey]), LAMBDA c :
         Bind(expandMapExprValues(c.h, c.v, facts), LAMBDA e :
             [h |-> e.h, hasData |-> TRUE, base |-> e.v, errs |-> e.errs]))
    ELSE Bind(Alloc(h, EmptyMap), LAMBDA r :
             [h |-> r.h, hasData |-> FALSE, base |-> r.v, errs |-> NoErr])

\* A switch whose deep case merges base into the candidate.
applyMergeSwapped(h, mergeMode, base, candidate) ==
    CASE mergeMode = <<"deep">> ->
           Bind(deepMerge(h, candidate, base), LAMBDA m :
               [h |-> m.h, base |-> m.v, outcome |-> "deep", errs |-> NoErr])
      [] mergeMode = <<"first">> ->
           Bind(shallowMerge(h, base, candidate), LAMBDA m :
               [h |-> m.h, base |-> m.v, outcome |-> "first", errs |-> NoErr])
      [] OTHER ->
           [h |-> h, base |-> base, outcome |-> "error",
            errs |-> {[kind |-> "mergemode", mode |-> mergeMode]}]
\* A switch whose first case merges and goes on to the next entry.
applyMergeNoReturn(h, mergeMode, base, candidate) ==
    CASE mergeMode = <<"deep">> ->
           Bind(deepMerge(h, base, candidate), LAMBDA m :
               [h |-> m.h, base |-> m.v, outcome |-> "deep", errs |-> NoErr])
      [] mergeMode = <<"first">> ->
           Bind(shallowMerge(h, base, candidate), LAMBDA m :
               [h |-> m.h, base |-> m.v, outcome |-> "deep", errs |-> NoErr])
      [] OTHER ->
           [h |-> h, base |-> base, outcome |-> "error",
            errs |-> {[kind |-> "mergemode", mode |-> mergeMode]}]
\* A switch whose default case is the first merge.
applyMergeDefaultFirst(h, mergeMode, base, candidate) ==
    CASE mergeMode = <<"deep">> ->
           Bind(deepMerge(h, base, candidate), LAMBDA m :
               [h |-> m.h, base |-> m.v, outcome |-> "deep", errs |-> NoErr])
      [] OTHER ->
           Bind(shallowMerge(h, base, candidate), LAMBDA m :
               [h |-> m.h, base |-> m.v, outcome |-> "first", errs |-> NoErr])
\* The switch on mergeMode for an expanded candidate.
applyMerge(h, mergeMode, base, candidate) ==
    CASE mergeMode = <<"deep">> ->
           Bind(deepMerge(h, base, candidate), LAMBDA m :
               [h |-> m.h, base |-> m.v, outcome |-> "deep", errs |-> NoErr])
      [] mergeMode = <<"first">> ->
           Bind(shallowMerge(h, base, candidate), LAMBDA m :
               [h |-> m.h, base |-> m.v, outcome |-> "first", errs |-> NoErr])
      [] OTHER ->
           [h |-> h, base |-> base, outcome |-> "error",
            errs |-> {[kind |-> "mergemode", mode |-> mergeMode]}]

\* The body of the loop over hierarchy.Order for one entry:
\* [h, base, outcome, key, candidate, logged, errs].
\* A continue taken after the call of log.Debug whatever the entry.
skipEntryLogged(r, base, outcome, logged) ==
    [h |-> r.h, base |-> base, outcome |-> outcome, key |-> r.s,
     candidate |-> NilMap, logged |-> TRUE, errs |-> NoErr]
\* continue: the entry is skipped.
skipEntry(r, base, outcome, logged) ==
    [h |-> r.h, base |-> base, outcome |-> outcome, key |-> r.s,
     candidate |-> NilMap, logged |-> logged, errs |-> NoErr]
\* A loop body that merges an empty fragment for a key that names no Mapping.
resolveEntryNoSkip(h, entry, facts, overrides, base, hasData, mergeMode, dataKey) ==
    Bind(applyFactsString(h, entry, facts), LAMBDA r :
        IF r.errs # NoErr
        THEN [h |-> r.h, base |-> base, outcome |-> "error", key |-> <<>>,
              candidate |-> NilMap, logged |-> FALSE, errs |-> r.errs]
        ELSE IF ~r.matched THEN skipEntry(r, base, "unmatched", FALSE)
        ELSE IF r.s = dataKey /\ hasData THEN skipEntry(r, base, "alias", TRUE)
        ELSE Bind(IF KeyIsMap(r.h, overrides, r.s)
                  THEN cloneMap(r.h, Entries(r.h, overrides)[r.s])
                  ELSE Alloc(r.h, EmptyMap), LAMBDA c :
             Bind(expandMapExprValues(c.h, c.v, facts), LAMBDA e :
                 IF e.errs # NoErr
                 THEN [h |-> e.h, base |-> base, outcome |-> "error",
                       key |-> r.s, candidate |-> NilMap, logged |-> TRUE,
                       errs |-> e.errs]
                 ELSE Bind(applyMerge(e.h, mergeMode, base, e.v), LAMBDA m :
                          [h |-> m.h, base |-> m.base, outcome |-> m.outcome,
                           key |-> r.s, candidate |-> e.v, logged |-> TRUE,
                           errs |-> m.errs]))))
\* A loop body that skips the data key whether or not there is base data.
resolveEntryAliasAlways(h, entry, facts, overrides, base, hasData, mergeMode, dataKey) ==
    Bind(applyFactsString(h, entry, facts), LAMBDA r :
        IF r.errs # NoErr
        THEN [h |-> r.h, base |-> base, outcome |-> "error", key |-> <<>>,
              candidate |-> NilMap, logged |-> FALSE, errs |-> r.errs]
        ELSE IF ~r.matched THEN skipEntry(r, base, "unmatched", FALSE)
        ELSE IF r.s = dataKey THEN skipEntry(r, base, "alias", TRUE)
        ELSE IF ~KeyIsMap(r.h, overrides, r.s)
        THEN skipEntry(r, base, "absent", TRUE)
        ELSE Bind(cloneMap(r.h, Entries(r.h, overrides)[r.s]), LAMBDA c :
             Bind(expandMapExprValues(c.h, c.v, facts), LAMBDA e :
                 IF e.errs # NoErr
                 THEN [h |-> e.h, base |-> base, outcome |-> "error",
                       key |-> r.s, candidate |-> NilMap, logged |-> TRUE,
                       errs |-> e.errs]
                 ELSE Bind(applyMerge(e.h, mergeMode, base, e.v), LAMBDA m :
                          [h |-> m.h, base |-> m.base, outcome |-> m.outcome,
                           key |-> r.s, candidate |-> e.v, logged |-> TRUE,
                           errs |-> m.errs]))))
resolveEntry(h, entry, facts, overrides, base, hasData, mergeMode, dataKey) ==
    Bind(applyFactsString(h, entry, facts), LAMBDA r :
        IF r.errs # NoErr
        THEN [h |-> r.h, base |-> base, outcome |-> "error", key |-> <<>>,
              candidate |-> NilMap, logged |-> FALSE, errs |-> r.errs]
        ELSE IF ~r.matched THEN skipEntry(r, base, "unmatched", FALSE)
        ELSE IF r.s = dataKey /\ hasData THEN skipEntry(r, base, "alias", TRUE)
        ELSE IF ~KeyIsMap(r.h, overrides, r.s)
        THEN skipEntry(r, base, "absent", TRUE)
        ELSE Bind(cloneMap(r.h, Entries(r.h, overrides)[r.s]), LAMBDA c :
             Bind(expandMapExprValues(c.h, c.v, facts), LAMBDA e :
                 IF e.errs # NoErr
                 THEN [h |-> e.h, base |-> base, outcome |-> "error",
                       key |-> r.s, candidate |-> NilMap, logged |-> TRUE,
                       errs |-> e.errs]
                 ELSE Bind(applyMerge(e.h, mergeMode, base, e.v), LAMBDA m :
                          [h |-> m.h, base |-> m.base, outcome |-> m.outcome,
                           key |-> r.s, candidate |-> e.v, logged |-> TRUE,
                           errs |-> m.errs]))))

(***************************************************************************)
(* The inputs of a call: decoded documents and facts                       *)
(***************************************************************************)
\* The longest hierarchy.order of the documents.
MaxOrder == 2

S(atom) == Str(<<atom>>)
\* The text {{ expr }}.
Span(expr) == <<"{", "{", " ">> \o expr \o <<" ", "}", "}">>
Obj(m) == MapNode(m)
Arr(s) == SeqNode(s)

tEnv == <<"env:">> \o Span(<<"lookup('env')">>)
tRole == <<"role:">> \o Span(<<"lookup('role')", " ", "|", " ", "lower()">>)
tData == <<"data">>
tGlobal == <<"global">>
tBad == Span(<<"nope()">>)
Templates == {tEnv, tRole, tData, tGlobal, tBad}

RECURSIVE SeqsUpTo(_, _)
SeqsUpTo(T, n) ==
    IF n = 0 THEN {<<>>}
    ELSE LET shorter == SeqsUpTo(T, n - 1)
         IN shorter \cup {Append(q, t) : q \in shorter, t \in T}
Orders == SeqsUpTo(Templates, MaxOrder)

\* hierarchy.merge: absent, or a value.
MergeValues == {Null, S("first"), S("FIRST"), S("deep"), S("DEEP"), S("Deep"),
                S("Bogus"), Str(<<>>), GoInt(1)}
HierarchyOf(order, merge) ==
    Obj((<<"order">> :> Arr([i \in 1..Len(order) |-> Str(order[i])]))
        @@ (<<"merge">> :> merge))
HierarchyNoMerge(order) ==
    Obj(<<"order">> :> Arr([i \in 1..Len(order) |-> Str(order[i])]))

DataA ==
    Obj((<<"log_level">> :> S("INFO"))
        @@ (<<"packages">> :> Arr(<<S("base")>>))
        @@ (<<"web">> :> Obj((<<"tls">> :> Bool(FALSE)) @@ (<<"port">> :> Num("float64", 6, 1))))
        @@ (<<"val">> :> Str(Span(<<"lookup('val')">>)))
        @@ (<<"name">> :> Str(Span(<<"lookup('node.name')">>)))
        @@ (<<"zone">> :> Str(Span(<<"lookup('other','dflt')">>))))
DataB ==
    Obj((<<"log_level">> :> Num("int64", 9, 1))
        @@ (<<"other">> :> Str(<<"x=">> \o Span(<<"lookup('other','dflt')">>)))
        @@ (<<"host">> :> Str(Span(<<"node">>)))
        @@ (<<"ports">> :> Arr(<<Num("int8", 3, 1), Num("float64", 3, 2),
                                 Num("uint64", 20, 1)>>)))

OverridesA ==
    Obj((<<"env:", "prod">> :>
            Obj((<<"log_level">> :> S("WARN"))
                @@ (<<"packages">> :> Arr(<<S("nginx"), Obj(<<"name">> :> S("curl"))>>))))
        @@ (<<"role:", "web">> :>
            Obj((<<"log_level">> :> S("TRACE"))
                @@ (<<"web">> :> Obj(<<"tls">> :> Bool(TRUE)))
                @@ (<<"val">> :> Str(Span(<<"lookup('val')", " ", "|", " ", "int()">>)))))
        @@ (<<"role:">> :> Obj(<<"log_level">> :> S("LITERAL")))
        @@ (<<"data">> :> Obj(<<"log_level">> :> S("ALIAS")))
        @@ (<<"global">> :> Obj(<<"packages">> :> Arr(<<S("vim")>>)))
        @@ (<<"unused">> :>
            Obj((<<"web">> :> Arr(<<S("off")>>))
                @@ (<<"packages">> :> Obj(<<"name">> :> S("curl")))
                @@ (<<"bad">> :> Str(Span(<<"nope()">>))))))
OverridesB ==
    Obj((<<"env:", "prod">> :> Obj(<<"bad">> :> Str(Span(<<"nope()">>))))
        @@ (<<"role:", "web">> :> S("not a map"))
        @@ (<<"global">> :> Obj(<<"name">> :> Str(Span(<<"node">>)))))

FactsA ==
    Obj((<<"env">> :> S("prod")) @@ (<<"role">> :> S("WEB"))
        @@ (<<"val">> :> GoInt(2))
        @@ (<<"node">> :> Obj(<<"name">> :> S("n1"))))
FactsB ==
    Obj((<<"env">> :> S("prod"))
        @@ (<<"val">> :> Arr(<<GoInt(1), S("x")>>)))
FactsC ==
    Obj((<<"role">> :> S("web")) @@ (<<"val">> :> Bool(TRUE))
        @@ (<<"other">> :> Num("float64", 3, 2))
        @@ (<<"node">> :> Obj(<<"name">> :> S("n1"))))
FactsPool == {FactsA, FactsB, FactsC}

Doc(hierarchy, sections) == Obj((<<"hierarchy">> :> hierarchy) @@ sections)
\* Sections with base data and overrides, and sections with one of them
\* missing or no Mapping.
FullSections ==
    {(<<"data">> :> DataA) @@ (<<"overrides">> :> OverridesA),
     (<<"data">> :> DataB) @@ (<<"overrides">> :> OverridesB)}
PartSections ==
    {<<"overrides">> :> OverridesA,
     <<"data">> :> DataA,
     (<<"data">> :> S("text")) @@ (<<"overrides">> :> OverridesB)}
SectionsPool == FullSections \cup PartSections
\* Documents whose hierarchy parses.
GoodDocs ==
    {Doc(HierarchyOf(o, m), s) : o \in Orders, m \in {S("first"), S("deep")},
                                 s \in FullSections}
    \cup {Doc(HierarchyOf(o, m), s) : o \in SeqsUpTo({tEnv, tRole, tData}, MaxOrder),
                                      m \in {S("first"), S("deep")},
                                      s \in PartSections}
\* Documents for every merge value.
MergeDocs ==
    {Doc(IF m = Null THEN HierarchyNoMerge(o) ELSE HierarchyOf(o, m),
         (<<"data">> :> DataA) @@ (<<"overrides">> :> OverridesA)) :
        o \in SeqsUpTo({tEnv, tRole}, MaxOrder), m \in MergeValues}
\* Documents whose hierarchy is missing or malformed.
BadHierarchies ==
    {S("text"), Obj(<<"merge">> :> S("deep")),
     Obj((<<"order">> :> S("global")) @@ (<<"merge">> :> S("deep"))),
     Obj(<<"order">> :> Arr(<<Str(tGlobal), GoInt(2)>>))}
SchemaDocs ==
    {Doc(hh, s) : hh \in BadHierarchies, s \in SectionsPool}
    \cup {Obj(s) : s \in SectionsPool}
\* Documents whose overrides section is not a map.
BadOverrides == {S("text"), Null, Arr(<<>>)}
PanicDocs ==
    {Doc(hh, (<<"data">> :> DataA) @@ (<<"overrides">> :> o)) :
        hh \in BadHierarchies \cup {HierarchyOf(<<tEnv>>, S("deep"))},
        o \in BadOverrides}
Docs == GoodDocs \cup MergeDocs \cup SchemaDocs \cup PanicDocs
\* Documents with a config section, with or without a data section.
ConfigA ==
    Obj((<<"log_level">> :> S("CONFIG")) @@ (<<"value">> :> GoInt(1))
        @@ (<<"val">> :> Str(Span(<<"lookup('val')">>))))
ConfigSections ==
    {(<<"config">> :> ConfigA) @@ (<<"overrides">> :> OverridesA),
     (<<"config">> :> ConfigA) @@ (<<"data">> :> DataA)
        @@ (<<"overrides">> :> OverridesA)}
ConfigDocs ==
    {Doc(HierarchyOf(o, m), s) : o \in SeqsUpTo({tData, tRole}, MaxOrder),
                                 m \in {S("first"), S("deep")},
                                 s \in ConfigSections}
OptionsPool == {DefaultOptions, [dataKey |-> <<"config">>]}
\* The calls: every document with the default options, the documents with a
\* config section with either key.
Calls ==
    {[doc |-> d, options |-> DefaultOptions] : d \in Docs}
    \cup {[doc |-> d, options |-> o] : d \in ConfigDocs, o \in OptionsPool}

\* The templates applyFactsString and applyFactsTyped are applied to on their
\* own: those of the order entries, the empty string, plain text, one span
\* alone, with spaces around it, with text before it, with text and a closing
\* brace pair after it, and two spans with and without text between them.
StringTemplates ==
    Templates \cup
    {<<>>, <<"plain">>,
     Span(<<"lookup('val')">>),
     <<" ">> \o Span(<<"lookup('val')">>) \o <<" ">>,
     Span(<<"node">>),
     <<"x=">> \o Span(<<"lookup('other','dflt')">>),
     Span(<<"lookup('val')">>) \o <<" ", "x", " ", "}", "}">>,
     Span(<<"lookup('env')">>) \o <<"/">> \o Span(<<"lookup('role')">>),
     Span(<<"lookup('role')">>) \o Span(<<"lookup('node.name')">>)}

(***************************************************************************)
(* The state of one call of Resolve                                        *)
(***************************************************************************)
VARIABLES
    heap,       \* the Go heap
    pc,         \* "start", "parse", "seed", "iterate", "done", "failed", "panicked"
    root,       \* the caller's document
    facts,      \* the caller's facts
    options,    \* the caller's options
    log,        \* whether a Logger is supplied
    nroot,      \* normalizedRoot
    overrides,  \* the overrides map, or nil
    order,      \* hierarchy.Order
    mergeMode,  \* mergeMode
    hasData,    \* hasData
    base,       \* base, the accumulator
    idx,        \* the position of the loop in hierarchy.Order
    result,     \* the returned map, nil with an error
    err,        \* the returned error
    logCalls,   \* the override argument of every log.Debug call, in order
    events,     \* what the loop did with each entry it reached, in order
    seeded,     \* the structure of base when the loop started
    doc0,       \* the structure of the document when the call started
    facts0,     \* the structure of the facts when the call started
    peer        \* a second call in flight on the same heap, Null without one
vars == <<heap, pc, root, facts, options, log, nroot, overrides, order, mergeMode, hasData,
          base, idx, result, err, logCalls, events, seeded, doc0, facts0, peer>>

Init ==
    \E c \in Calls, f \in FactsPool, l \in BOOLEAN :
        \E bd \in {Build(<<>>, c.doc)} : \E bf \in {Build(bd.h, f)} :
           /\ heap = bf.h
           /\ root = bd.v
           /\ facts = bf.v
           /\ options = c.options
           /\ log = l
           /\ doc0 = c.doc
           /\ facts0 = f
           /\ pc = "start"
           /\ nroot = NilMap
           /\ overrides = NilMap
           /\ order = <<>>
           /\ mergeMode = <<>>
           /\ hasData = FALSE
           /\ base = NilMap
           /\ idx = 0
           /\ result = NilMap
           /\ err = NoError
           /\ logCalls = <<>>
           /\ events = <<>>
           /\ seeded = Null
           /\ peer = Null

\* A return that hands the accumulator out with the error.
FailWithBase(h, e) ==
    /\ heap' = h
    /\ pc' = "failed"
    /\ result' = base
    /\ err' = e
\* return nil, e
Fail(h, e) ==
    /\ heap' = h
    /\ pc' = "failed"
    /\ result' = NilMap
    /\ err' = e

\* Resolve, lines 392-401: normalise the document and read its overrides
\* section; overrides = root["overrides"].(map[string]any) panics when the
\* section is there and is no map.
Begin ==
    /\ pc = "start"
    /\ \E n \in {normalizeNumericValues(heap, root)} :
          /\ heap' = n.h
          /\ nroot' = n.v
          /\ IF ~HasKey(n.h, n.v, <<"overrides">>)
             THEN pc' = "parse" /\ overrides' = NilMap
             ELSE IF KeyIsMap(n.h, n.v, <<"overrides">>)
             THEN pc' = "parse" /\ overrides' = Entries(n.h, n.v)[<<"overrides">>]
             ELSE pc' = "panicked" /\ overrides' = NilMap
    /\ UNCHANGED <<peer, root, facts, options, log, order, mergeMode, hasData, base, idx, result,
                   err, logCalls, events, seeded, doc0, facts0>>

\* Resolve, lines 403-406.
Parse ==
    /\ pc = "parse"
    /\ \E p \in {parseHierarchy(heap, nroot)} :
          IF p.err # NoError
          THEN Fail(heap, p.err) /\ UNCHANGED <<order, mergeMode>>
          ELSE /\ order' = p.order
               /\ mergeMode' = p.merge
               /\ pc' = "seed"
               /\ UNCHANGED <<heap, result, err>>
    /\ UNCHANGED <<peer, root, facts, options, log, nroot, overrides, hasData, base, idx,
                   logCalls, events, seeded, doc0, facts0>>

\* Resolve, lines 408-420.
Seed ==
    /\ pc = "seed"
    /\ \E s \in {seedBase(heap, nroot, facts, dataKeyOf(options))} :
          IF s.errs # NoErr
          THEN /\ \E e \in s.errs : Fail(s.h, e)
               /\ UNCHANGED <<hasData, base, mergeMode, idx, seeded>>
          ELSE /\ heap' = s.h
               /\ hasData' = s.hasData
               /\ base' = s.base
               /\ seeded' = Deref(s.h, s.base)
               /\ mergeMode' = mergeModeOf(mergeMode)
               /\ idx' = 1
               /\ pc' = "iterate"
               /\ UNCHANGED <<result, err>>
    /\ UNCHANGED <<peer, root, facts, options, log, nroot, overrides, order, logCalls, events,
                   doc0, facts0>>

\* A pass of the loop whose continue belongs to the logger's block: with a
\* logger a matched entry is logged and skipped.
EntryLogContinue ==
    /\ pc = "iterate"
    /\ idx <= Len(order)
    /\ \E r \in {resolveEntry(heap, order[idx], facts, overrides, base, hasData,
                               mergeMode, dataKeyOf(options))} :
          IF log /\ r.logged
          THEN /\ events' = Append(events, [i |-> idx, outcome |-> "absent",
                                            key |-> r.key, fragment |-> Null])
               /\ logCalls' = Append(logCalls, r.key)
               /\ idx' = idx + 1
               /\ UNCHANGED <<heap, base, pc, result, err>>
          ELSE /\ events' = Append(events, [i |-> idx, outcome |-> r.outcome,
                                            key |-> r.key,
                                            fragment |-> Deref(r.h, r.candidate)])
               /\ logCalls' = logCalls
               /\ CASE r.outcome = "error" ->
                         /\ \E e \in r.errs : Fail(r.h, e)
                         /\ UNCHANGED <<base, idx>>
                    [] r.outcome = "first" ->
                         /\ heap' = r.h
                         /\ base' = r.base
                         /\ result' = r.base
                         /\ pc' = "done"
                         /\ UNCHANGED <<err, idx>>
                    [] OTHER ->
                         /\ heap' = r.h
                         /\ base' = r.base
                         /\ idx' = idx + 1
                         /\ UNCHANGED <<pc, result, err>>
    /\ UNCHANGED <<peer, root, facts, options, log, nroot, overrides, order, mergeMode,
                   hasData, seeded, doc0, facts0>>
\* Resolve, lines 422-459: one pass of the loop.
Entry ==
    /\ pc = "iterate"
    /\ idx <= Len(order)
    /\ \E r \in {resolveEntry(heap, order[idx], facts, overrides, base, hasData,
                               mergeMode, dataKeyOf(options))} :
          /\ events' = Append(events, [i |-> idx, outcome |-> r.outcome,
                                       key |-> r.key,
                                       fragment |-> Deref(r.h, r.candidate)])
          /\ logCalls' = IF log /\ r.logged THEN Append(logCalls, r.key)
                         ELSE logCalls
          /\ CASE r.outcome = "error" ->
                    /\ \E e \in r.errs : Fail(r.h, e)
                    /\ UNCHANGED <<base, idx>>
               [] r.outcome = "first" ->
                    /\ heap' = r.h
                    /\ base' = r.base
                    /\ result' = r.base
                    /\ pc' = "done"
                    /\ UNCHANGED <<err, idx>>
               [] OTHER ->
                    /\ heap' = r.h
                    /\ base' = r.base
                    /\ idx' = idx + 1
                    /\ UNCHANGED <<pc, result, err>>
    /\ UNCHANGED <<peer, root, facts, options, log, nroot, overrides, order, mergeMode, hasData,
                   seeded, doc0, facts0>>

\* Resolve, line 461: return base, nil.
Return ==
    /\ pc = "iterate"
    /\ idx > Len(order)
    /\ pc' = "done"
    /\ result' = base
    /\ UNCHANGED <<peer, heap, root, facts, options, log, nroot, overrides, order, mergeMode,
                   hasData, base, idx, err, logCalls, events, seeded, doc0,
                   facts0>>

Next == Begin \/ Parse \/ Seed \/ Entry \/ Return

Spec == Init /\ [][Next]_vars

(***************************************************************************)
(* Two calls of Resolve in flight on one heap                              *)
(***************************************************************************)
\* Resolve as a step function on the record of a call (its heap, arguments,
\* locals and return values): the records the call can be in after its next
\* step.  The logger is no part of the record.
Successors(st) ==
    CASE st.pc = "start" ->
           {[st EXCEPT
                !.heap = n.h, !.nroot = n.v,
                !.pc = IF HasKey(n.h, n.v, <<"overrides">>)
                          /\ ~KeyIsMap(n.h, n.v, <<"overrides">>)
                       THEN "panicked" ELSE "parse",
                !.overrides = IF KeyIsMap(n.h, n.v, <<"overrides">>)
                              THEN Entries(n.h, n.v)[<<"overrides">>]
                              ELSE NilMap] :
               n \in {normalizeNumericValues(st.heap, st.root)}}
      [] st.pc = "parse" ->
           {IF p.err # NoError
            THEN [st EXCEPT !.pc = "failed", !.result = NilMap, !.err = p.err]
            ELSE [st EXCEPT !.pc = "seed", !.order = p.order,
                            !.mergeMode = p.merge] :
               p \in {parseHierarchy(st.heap, st.nroot)}}
      [] st.pc = "seed" ->
           UNION {IF s.errs # NoErr
                  THEN {[st EXCEPT !.heap = s.h, !.pc = "failed",
                                   !.result = NilMap, !.err = e] :
                           e \in s.errs}
                  ELSE {[st EXCEPT !.heap = s.h, !.pc = "iterate",
                                   !.hasData = s.hasData, !.base = s.base,
                                   !.mergeMode = mergeModeOf(st.mergeMode),
                                   !.idx = 1]} :
                     s \in {seedBase(st.heap, st.nroot, st.facts,
                                     dataKeyOf(st.options))}}
      [] st.pc = "iterate" /\ st.idx <= Len(st.order) ->
           UNION {CASE r.outcome = "error" ->
                         {[st EXCEPT !.heap = r.h, !.pc = "failed",
                                     !.result = NilMap, !.err = e] :
                             e \in r.errs}
                    [] r.outcome = "first" ->
                         {[st EXCEPT !.heap = r.h, !.pc = "done",
                                     !.base = r.base, !.result = r.base]}
                    [] OTHER ->
                         {[st EXCEPT !.heap = r.h, !.base = r.base,
                                     !.idx = st.idx + 1]} :
                     r \in {resolveEntry(st.heap, st.order[st.idx], st.facts,
                                         st.overrides, st.base, st.hasData,
                                         st.mergeMode, dataKeyOf(st.options))}}
      [] st.pc = "iterate" /\ st.idx > Len(st.order) ->
           {[st EXCEPT !.pc = "done", !.result = st.base]}
      [] OTHER -> {}
\* The record of a call that is about to start.
NewCall(h, r, f, o) ==
    [heap |-> h, pc |-> "start", root |-> r, facts |-> f, options |-> o,
     nroot |-> NilMap, overrides |-> NilMap, order |-> <<>>, mergeMode |-> <<>>,
     hasData |-> FALSE, base |-> NilMap, idx |-> 0, result |-> NilMap,
     err |-> NoError]

\* The inputs of the calls that run in twos.
PairDocs ==
    {Doc(HierarchyOf(<<tEnv, tRole>>, S("deep")),
         (<<"data">> :> DataA) @@ (<<"overrides">> :> OverridesA)),
     Doc(HierarchyOf(<<tRole, tEnv>>, S("first")),
         (<<"data">> :> DataA) @@ (<<"overrides">> :> OverridesA)),
     Doc(HierarchyOf(<<tGlobal>>, S("deep")),
         (<<"data">> :> DataB) @@ (<<"overrides">> :> OverridesB))}
PairCalls ==
    {[doc |-> d, facts |-> f, options |-> DefaultOptions] :
        d \in PairDocs, f \in {FactsA, FactsC}}
    \cup {[doc |-> Doc(HierarchyOf(<<tRole>>, S("deep")),
                      (<<"config">> :> ConfigA) @@ (<<"overrides">> :> OverridesA)),
           facts |-> FactsC, options |-> [dataKey |-> <<"config">>]]}

\* Two callers, each with a document and facts of its own on the one heap.
InitPair ==
    \E c1 \in PairCalls, c2 \in PairCalls :
        \E d1 \in {Build(<<>>, c1.doc)} : \E f1 \in {Build(d1.h, c1.facts)} :
        \E d2 \in {Build(f1.h, c2.doc)} : \E f2 \in {Build(d2.h, c2.facts)} :
           /\ heap = f2.h
           /\ root = d1.v
           /\ facts = f1.v
           /\ options = c1.options
           /\ log = FALSE
           /\ doc0 = c1.doc
           /\ facts0 = c1.facts
           /\ pc = "start"
           /\ nroot = NilMap
           /\ overrides = NilMap
           /\ order = <<>>
           /\ mergeMode = <<>>
           /\ hasData = FALSE
           /\ base = NilMap
           /\ idx = 0
           /\ result = NilMap
           /\ err = NoError
           /\ logCalls = <<>>
           /\ events = <<>>
           /\ seeded = Null
           /\ peer = [NewCall(<<>>, d2.v, f2.v, c2.options) EXCEPT !.heap = <<>>]
                        @@ [doc0 |-> c2.doc, facts0 |-> c2.facts]

\* A step of the second call, on the heap as the first call has left it.
PeerStep ==
    /\ \E t \in Successors([peer EXCEPT !.heap = heap]) :
          /\ heap' = t.heap
          /\ peer' = [t EXCEPT !.heap = <<>>]
    /\ UNCHANGED <<pc, root, facts, options, log, nroot, overrides, order,
                   mergeMode, hasData, base, idx, result, err, logCalls, events,
                   seeded, doc0, facts0>>

NextPair == Begin \/ Parse \/ Seed \/ Entry \/ Return \/ PeerStep

SpecPair == InitPair /\ [][NextPair]_vars

(***************************************************************************)
(* What a call is observed to do                                           *)
(***************************************************************************)
Returned == pc \in {"done", "failed"}
Res == Deref(heap, result)

\* overrides[key] of the caller's document is a Mapping.
OverrideFragment(key) ==
    /\ <<"overrides">> \in DOMAIN doc0.m
    /\ doc0.m[<<"overrides">>].k = "map"
    /\ key \in DOMAIN doc0.m[<<"overrides">>].m
    /\ doc0.m[<<"overrides">>].m[key].k = "map"
\* Order entry i resolves to a matched key that names an override fragment;
\* the key "data" names the base data when the document has base data.
Applies(i) ==
    \E r \in {applyFactsString(heap, order[i], facts)} :
        /\ r.errs = NoErr
        /\ r.matched
        /\ ~(r.s = dataKeyOf(options) /\ hasData)
        /\ OverrideFragment(r.s)
\* The entries of the loop that merged a fragment, and the structures merged:
\* the seeded base data first, then each expanded fragment in order.
IsMerge(e) == e.outcome \in {"deep", "first"}
AppliedEvents == SelectSeq(events, IsMerge)
Layers == <<seeded>> \o [i \in 1..Len(AppliedEvents) |-> AppliedEvents[i].fragment]

\* Fields of a structure: a path is a sequence of keys.
RECURSIVE Defines(_, _)
Defines(t, p) ==
    IF p = <<>> THEN TRUE
    ELSE /\ t.k = "map"
         /\ Head(p) \in DOMAIN t.m
         /\ Defines(t.m[Head(p)], Tail(p))
RECURSIVE At(_, _)
At(t, p) == IF p = <<>> THEN t ELSE At(t.m[Head(p)], Tail(p))
RECURSIVE Paths(_)
Paths(t) ==
    IF t.k # "map" THEN {}
    ELSE UNION {{<<x>>} \cup {<<x>> \o q : q \in Paths(t.m[x])} : x \in DOMAIN t.m}
Definers(p) == {i \in 1..Len(Layers) : Defines(Layers[i], p)}
IsScalar(t) == t.k \notin {"map", "seq"}

(***************************************************************************)
(* The claims                                                              *)
(***************************************************************************)
\* C1: the document and the facts of the caller are never written: in every
\* state of a call, and so when Resolve has returned with a result or with
\* an error, both are structurally what they were when the call started.
C1_NonMutation == Deref(heap, root) = doc0 /\ Deref(heap, facts) = facts0
\* A call that returned a result after expanding base data and deep-merging
\* an expanded fragment.
C1_Witness ==
    /\ pc = "done"
    /\ hasData
    /\ \E i \in 1..Len(events) : events[i].outcome = "deep"
    /\ C1_NonMutation

\* C2: in merge mode deep a call that returns a result has gone through
\* every order entry in order and has merged exactly the entries that match
\* and name an override fragment; every scalar field of the result has the
\* value the last merged structure defining it gives it, the structures being
\* the base data and then the applied fragments in hierarchy order.
C2_DeepScalarOrder ==
    (pc = "done" /\ mergeMode = <<"deep">>) =>
        /\ Len(events) = Len(order)
        /\ \A i \in 1..Len(order) :
              /\ events[i].i = i
              /\ (events[i].outcome = "deep") <=> Applies(i)
        /\ \A p \in Paths(Res) :
              IsScalar(At(Res, p)) =>
                  /\ Definers(p) # {}
                  /\ At(Res, p) = At(Layers[Max(Definers(p))], p)
\* A result with a scalar field that the base data and two applied fragments
\* define, the last one differently from the base data.
C2_Witness ==
    /\ pc = "done"
    /\ mergeMode = <<"deep">>
    /\ \E p \in Paths(Res) :
          /\ IsScalar(At(Res, p))
          /\ Cardinality(Definers(p)) >= 3
          /\ At(Res, p) # At(seeded, p)
          /\ At(Res, p) # At(Layers[2], p)

\* The sequences that the merged structures, the base data first, give the
\* field p, one after the other from structure i on.
RECURSIVE ConcatFrom(_, _)
ConcatFrom(p, i) ==
    IF i > Len(Layers) THEN <<>>
    ELSE (IF Defines(Layers[i], p) THEN At(Layers[i], p).s ELSE <<>>)
         \o ConcatFrom(p, i + 1)
\* Every merged structure that defines the field p, or a field on the way to
\* it, has a Sequence at p and a Mapping above it.
SequenceField(p) ==
    \A i \in 1..Len(Layers), n \in 1..Len(p) :
        Defines(Layers[i], SubSeq(p, 1, n)) =>
            At(Layers[i], SubSeq(p, 1, n)).k = (IF n = Len(p) THEN "seq" ELSE "map")
\* C3: in merge mode deep a field that the base data and the applied
\* fragments define as a Sequence is, in the result, the concatenation of all
\* these definitions: the base data's first, then the fragments' in hierarchy
\* order, every element kept, in place, as often as it is given.
C3_DeepSequenceConcat ==
    (pc = "done" /\ mergeMode = <<"deep">>) =>
        \A p \in UNION {Paths(Layers[i]) : i \in 1..Len(Layers)} :
            SequenceField(p) =>
                /\ Defines(Res, p)
                /\ At(Res, p) = SeqNode(ConcatFrom(p, 1))
\* A result with a Sequence field that the base data and two applied fragments
\* define, none of them empty.
C3_Witness ==
    /\ pc = "done"
    /\ mergeMode = <<"deep">>
    /\ \E p \in Paths(Res) :
          /\ SequenceField(p)
          /\ Cardinality(Definers(p)) = 3
          /\ \A i \in Definers(p) : Len(At(Layers[i], p).s) >= 1
          /\ Len(At(Res, p).s) >= 4

\* The shallow merge of two Mappings: the keys of b replace those of a.
ShallowOver(a, b) ==
    MapNode([x \in DOMAIN a.m \cup DOMAIN b.m |->
                IF x \in DOMAIN b.m THEN b.m[x] ELSE a.m[x]])
\* C4: in merge mode first (also selected by an empty merge value) a call
\* that returns a result has stopped at the first order entry that matches
\* and names an override fragment: the loop has reached no later entry, the
\* entries before it were skipped, and the result is the base data
\* shallow-merged with that one expanded fragment; with no such entry every
\* entry was reached and skipped and the result is the base data.
C4_FirstShortCircuit ==
    (pc = "done" /\ mergeMode = <<"first">>) =>
        LET hits == {i \in 1..Len(order) : Applies(i)}
        IN IF hits = {}
           THEN /\ Len(events) = Len(order)
                /\ \A i \in 1..Len(events) : ~IsMerge(events[i])
                /\ Res = seeded
           ELSE /\ Len(events) = Min(hits)
                /\ \A i \in 1..(Len(events) - 1) : ~IsMerge(events[i])
                /\ events[Len(events)].outcome = "first"
                /\ events[Len(events)].i = Min(hits)
                /\ Res = ShallowOver(seeded, events[Len(events)].fragment)
\* A first-mode result reached while a later order entry that would also
\* match and name an override fragment is left unvisited.
C4_Witness ==
    /\ pc = "done"
    /\ mergeMode = <<"first">>
    /\ Len(events) < Len(order)
    /\ Applies(Len(events) + 1)
    /\ events[Len(events)].outcome = "first"
    /\ Res # seeded

\* The template has one placeholder, a lookup without default of a fact that
\* the facts of the call do not hold.
OnlyFactAbsent(entry) ==
    \E ms \in {FindAll(entry)} :
        /\ Len(ms) = 1
        /\ \E toks \in {Tokens(Capture(entry, ms[1]))} :
              /\ toks[1] \in LookupAtoms
              /\ ~LookupArgs(toks[1]).hasDflt
              /\ Head(LookupArgs(toks[1]).path) \notin DOMAIN facts0.m
\* C5: the pass of the loop over an order entry whose only placeholder fact
\* is absent skips the entry: base is left as it is, nothing is logged, no
\* error is returned and the loop is at the next entry, also when overrides
\* holds a fragment under the text the template resolves to.
C5_UnmatchedSkipped ==
    [][(pc = "iterate" /\ idx <= Len(order) /\ OnlyFactAbsent(order[idx])) =>
          /\ pc' = "iterate"
          /\ idx' = idx + 1
          /\ base' = base
          /\ Deref(heap', base') = Deref(heap, base)
          /\ err' = NoError
          /\ logCalls' = logCalls
          /\ events'[idx].outcome = "unmatched"]_vars
\* An unmatched entry whose resolved text, role:, is a key of overrides was
\* passed and the loop went on to a later entry.
C5_Witness ==
    /\ \E i \in 1..(Len(events) - 1) :
          /\ events[i].outcome = "unmatched"
          /\ events[i].key = <<"role:">>
          /\ OnlyFactAbsent(order[i])
          /\ OverrideFragment(<<"role:">>)
    /\ pc = "done"

\* A value without the Go type of its numbers: a number is its value.
RECURSIVE Plain(_)
Plain(t) ==
    CASE t.k = "num" -> [k |-> "num", n |-> t.n, d |-> t.d]
      [] t.k = "map" -> MapNode([x \in DOMAIN t.m |-> Plain(t.m[x])])
      [] t.k = "seq" -> SeqNode([i \in 1..Len(t.s) |-> Plain(t.s[i])])
      [] OTHER -> t
\* The raw value is a String that is one placeholder and nothing else, its
\* expression one lookup or one name, without filters.
WholePlaceholder(raw) ==
    /\ raw.k = "string"
    /\ \E ms \in {FindAll(raw.s)} :
          /\ Len(ms) = 1
          /\ ms[1].fs = 1
          /\ ms[1].fe = Len(raw.s) + 1
          /\ Len(Tokens(Capture(raw.s, ms[1]))) = 1
\* The path into facts that the expression of a whole placeholder names.
FactPath(raw) ==
    LET tok == Tokens(Capture(raw.s, FindAll(raw.s)[1]))[1]
    IN IF tok \in LookupAtoms THEN LookupArgs(tok).path ELSE << <<tok>> >>
\* The sections of the document that the call merged, as the document gives
\* them: the base data, then the applied fragments in order.
RawLayers ==
    <<IF hasData THEN doc0.m[dataKeyOf(options)] ELSE EmptyMap>>
    \o [i \in 1..Len(AppliedEvents) |->
           doc0.m[<<"overrides">>].m[AppliedEvents[i].key]]
RawDefiners(x) == {i \in 1..Len(RawLayers) : x \in DOMAIN RawLayers[i].m}
\* The field x of the result is given last by a whole placeholder whose
\* expression names a number, boolean, Sequence or Mapping of the facts, and
\* no deep merge joins it with another definition of x.
TypedPlaceholder(x) ==
    /\ RawDefiners(x) # {}
    /\ \E raw \in {RawLayers[Max(RawDefiners(x))].m[x]} :
          /\ WholePlaceholder(raw)
          /\ Defines(facts0, FactPath(raw))
          /\ \E f \in {At(facts0, FactPath(raw))} :
                \/ f.k \in {"num", "bool"}
                \/ /\ f.k \in {"seq", "map"}
                   /\ Cardinality(RawDefiners(x)) = 1 \/ mergeMode = <<"first">>
TypedFact(x) == At(facts0, FactPath(RawLayers[Max(RawDefiners(x))].m[x]))
\* C6: a field that the base data or an applied fragment gives as one whole
\* placeholder naming a number, boolean, Sequence or Mapping of the facts is,
\* in the result, that value with its type (a number by its value, whatever
\* its Go type), not a String.
C6_TypedValuePreserved ==
    pc = "done" =>
        \A x \in UNION {DOMAIN RawLayers[i].m : i \in 1..Len(RawLayers)} :
            TypedPlaceholder(x) =>
                /\ x \in DOMAIN Res.m
                /\ Res.m[x].k = TypedFact(x).k
                /\ Plain(Res.m[x]) = Plain(TypedFact(x))
\* A result with a field given by a whole placeholder that names a Sequence
\* of the facts holding a number.
C6_Witness ==
    /\ pc = "done"
    /\ \E x \in DOMAIN Res.m :
          /\ TypedPlaceholder(x)
          /\ TypedFact(x).k = "seq"
          /\ \E i \in 1..Len(TypedFact(x).s) : TypedFact(x).s[i].k = "num"
          /\ Res.m[x].k = "seq"

\* C7: no Mapping or Sequence node that the returned map reaches is reached
\* from the caller's document or from the caller's facts.
C7_ResultOwned ==
    pc = "done" =>
        Reach(heap, result) \cap (Reach(heap, root) \cup Reach(heap, facts)) = {}
\* A result that holds, below its top level, a Mapping equal to a Mapping of
\* the facts, which a placeholder naming that fact put there, and a Sequence
\* or Mapping taken from the document.
C7_Witness ==
    /\ pc = "done"
    /\ \E x \in DOMAIN Res.m :
          /\ Res.m[x].k = "map"
          /\ \E y \in DOMAIN facts0.m : facts0.m[y] = Res.m[x]
    /\ Cardinality(Reach(heap, result)) >= 2
    /\ C7_ResultOwned

\* The merge value of the document's hierarchy when it is a String.
MergeIsString ==
    /\ <<"hierarchy">> \in DOMAIN doc0.m
    /\ doc0.m[<<"hierarchy">>].k = "map"
    /\ <<"merge">> \in DOMAIN doc0.m[<<"hierarchy">>].m
    /\ doc0.m[<<"hierarchy">>].m[<<"merge">>].k = "string"
MergeText == doc0.m[<<"hierarchy">>].m[<<"merge">>].s
FirstSpellings == {<<"first">>, <<"FIRST">>, <<"First">>}
DeepSpellings == {<<"deep">>, <<"DEEP">>, <<"Deep">>}
\* The merge value is a non-empty String that is neither first nor deep.
UnsupportedMerge ==
    /\ MergeIsString
    /\ MergeText # <<>>
    /\ MergeText \notin FirstSpellings \cup DeepSpellings
\* C8 as stated: whatever the document and the facts, a call whose merge
\* value is an unsupported String returns the merge-mode error and no result.
C8_AlwaysMergeModeError ==
    (Returned /\ UnsupportedMerge) =>
        /\ pc = "failed"
        /\ err.kind = "mergemode"
        /\ result = NilMap
\* C8: with an unsupported merge value the merge-mode error is returned at
\* the first order entry that matches and names an override fragment, once the
\* fragment is expanded; it names the value in lower case and comes with no
\* result.  A call without such an entry returns the base data and no error
\* unless an expression fails; a call with such an entry returns no result,
\* and an error other than the merge-mode error stops it at that entry or
\* before.
C8_MergeModeErrorAtMerge ==
    (Returned /\ UnsupportedMerge) =>
        LET hits == {i \in 1..Len(order) : Applies(i)}
        IN /\ pc = "done" <=> (err = NoError /\ hits = {})
           /\ pc = "done" => (Len(events) = Len(order) /\ Res = seeded)
           /\ (pc = "failed" /\ err.kind = "mergemode") =>
                 /\ hits # {}
                 /\ Len(events) = Min(hits)
                 /\ err.mode = ToLower(MergeText)
                 /\ result = NilMap
           /\ (pc = "failed" /\ err.kind # "mergemode") =>
                 /\ err.kind \in {"schema", "compile", "run", "marshal"}
                 /\ hits # {} => Len(events) <= Min(hits)
\* A call with the merge value Bogus fails with the merge-mode error naming
\* bogus at its second order entry.
C8_Witness ==
    /\ pc = "failed"
    /\ UnsupportedMerge
    /\ err = [kind |-> "mergemode", mode |-> <<"bogus">>]
    /\ Len(events) = 2
    /\ result = NilMap

\* C9: the merge value selects the mode whatever its case: deep, DEEP and
\* Deep select the deep merge and first and FIRST the first merge; an empty
\* or absent merge value, or one that is no String, selects the first merge.
\* Every merge the loop then makes is of the selected mode.
C9_MergeModeSelection ==
    idx >= 1 =>
        /\ (MergeIsString /\ MergeText \in DeepSpellings) =>
              /\ mergeMode = <<"deep">>
              /\ \A i \in 1..Len(events) :
                    IsMerge(events[i]) => events[i].outcome = "deep"
        /\ (~MergeIsString \/ MergeText = <<>> \/ MergeText \in FirstSpellings) =>
              /\ mergeMode = <<"first">>
              /\ \A i \in 1..Len(events) :
                    IsMerge(events[i]) => events[i].outcome = "first"
\* A call of merge value DEEP that deep-merged two fragments.
C9_Witness ==
    /\ pc = "done"
    /\ MergeIsString
    /\ MergeText = <<"DEEP">>
    /\ Len(AppliedEvents) = 2
    /\ \A i \in 1..2 : AppliedEvents[i].outcome = "deep"

\* The hierarchy of the caller's document is a Mapping whose order is a
\* Sequence of Strings.
HierarchyValid ==
    /\ <<"hierarchy">> \in DOMAIN doc0.m
    /\ doc0.m[<<"hierarchy">>].k = "map"
    /\ <<"order">> \in DOMAIN doc0.m[<<"hierarchy">>].m
    /\ doc0.m[<<"hierarchy">>].m[<<"order">>].k = "seq"
    /\ \A i \in 1..Len(doc0.m[<<"hierarchy">>].m[<<"order">>].s) :
          doc0.m[<<"hierarchy">>].m[<<"order">>].s[i].k = "string"
OrderOfDocument ==
    [i \in 1..Len(doc0.m[<<"hierarchy">>].m[<<"order">>].s) |->
        doc0.m[<<"hierarchy">>].m[<<"order">>].s[i].s]
\* What parseHierarchy does in a call that reaches it: the schema error
\* exactly for an invalid hierarchy, else the order elements as they are and
\* in their sequence, the document left as it was.
ParseHierarchyVerdict ==
    pc \in {"seed", "iterate", "done", "failed"} =>
        /\ (pc = "failed" /\ err.kind = "schema") <=> ~HierarchyValid
        /\ HierarchyValid => order = OrderOfDocument
        /\ Deref(heap, root) = doc0
\* C10: parseHierarchy, and so every call of Resolve, fails with a schema
\* error exactly when hierarchy is missing or no Mapping, order is missing or
\* no Sequence, or an order element is no String, and else yields the order
\* elements unchanged and in sequence without a change to the document;
\* however a call ends, it ends with the schema error exactly for an invalid
\* hierarchy.
C10_SchemaValidation ==
    /\ ParseHierarchyVerdict
    /\ pc \in {"done", "failed", "panicked"} =>
          ((pc = "failed" /\ err.kind = "schema") <=> ~HierarchyValid)

\* C11: a call that returns an error, of whatever kind, returns the nil map
\* with it, also when the loop had already merged fragments into base; a
\* call that returns a result returns no error.
C11_NoPartialResult ==
    /\ pc = "failed" => (result = NilMap /\ err # NoError)
    /\ pc = "done" => err = NoError
\* A deep-mode call that failed at an order entry after it had merged the
\* fragment of an earlier entry into base.
C11_Witness ==
    /\ pc = "failed"
    /\ mergeMode = <<"deep">>
    /\ Len(AppliedEvents) >= 1
    /\ Deref(heap, base) # seeded
    /\ result = NilMap

\* The canonical form of a tree: every number that is whole and lies in
\* minInt..maxInt is the native int of that value, whatever its type; every
\* other leaf is as it was.
RECURSIVE Canonical(_)
Canonical(t) ==
    CASE t.k = "num" ->
           IF t.d = 1 /\ t.n >= minInt /\ t.n <= maxInt THEN GoInt(t.n) ELSE t
      [] t.k = "map" -> MapNode([x \in DOMAIN t.m |-> Canonical(t.m[x])])
      [] t.k = "seq" -> SeqNode([i \in 1..Len(t.s) |-> Canonical(t.s[i])])
      [] OTHER -> t
\* C12: the tree normalizeNumericValues returns for the document is the
\* document with every numeric leaf, at any depth, in canonical form: the
\* native int exactly when the leaf is whole and within minInt..maxInt, and
\* else the leaf with its type and value.
C12_NumericCanonical ==
    pc \notin {"start"} => Deref(heap, nroot) = Canonical(doc0)

\* The raw value is one whole placeholder whose expression is one lookup call.
WholeLookup(raw) ==
    /\ WholePlaceholder(raw)
    /\ Tokens(Capture(raw.s, FindAll(raw.s)[1]))[1] \in LookupAtoms
LookupCall(raw) == LookupArgs(Tokens(Capture(raw.s, FindAll(raw.s)[1]))[1])
\* What lookup is to return for the call: the fact at the path when the
\* facts hold one, else the default of the call, else the empty string.
LookupExpected(raw) ==
    IF Defines(facts0, LookupCall(raw).path)
    THEN Plain(At(facts0, LookupCall(raw).path))
    ELSE IF LookupCall(raw).hasDflt THEN LookupCall(raw).dflt
    ELSE Str(<<>>)
\* C13: a base-data value that is one whole lookup placeholder is seeded
\* with the fact at the path of the call when the facts hold that path (a
\* number by its value), with the default of the call when they do not and
\* the call gives one, and with the empty string otherwise.
C13_LookupDefault ==
    (idx >= 1 /\ hasData) =>
        \A x \in DOMAIN doc0.m[dataKeyOf(options)].m :
            WholeLookup(doc0.m[dataKeyOf(options)].m[x]) =>
                /\ x \in DOMAIN seeded.m
                /\ Plain(seeded.m[x]) = LookupExpected(doc0.m[dataKeyOf(options)].m[x])
\* A seeded base with one lookup that found its dotted path in the facts and
\* one that fell back to its default, the facts holding nothing at its path.
C13_Witness ==
    /\ idx >= 1
    /\ hasData
    /\ <<"zone">> \in DOMAIN seeded.m
    /\ seeded.m[<<"zone">>] = Str(<<"dflt">>)
    /\ seeded.m[<<"name">>] = Str(<<"n1">>)
    /\ <<"other">> \notin DOMAIN facts0.m


\* The value holds no placeholder at any depth.
RECURSIVE NoSpans(_)
NoSpans(t) ==
    CASE t.k = "string" -> Len(FindAll(t.s)) = 0
      [] t.k = "map" -> \A x \in DOMAIN t.m : NoSpans(t.m[x])
      [] t.k = "seq" -> \A i \in 1..Len(t.s) : NoSpans(t.s[i])
      [] OTHER -> TRUE
NoOverrideApplies == \A i \in 1..Len(order) : ~Applies(i)
\* Every order entry of the call evaluates: no expression of it fails.
OrderEvaluates ==
    \A i \in 1..Len(order) : applyFactsString(heap, order[i], facts).errs = NoErr
EntryMatched(i) ==
    \E r \in {applyFactsString(heap, order[i], facts)} : r.errs = NoErr /\ r.matched
EntryKey(i) == applyFactsString(heap, order[i], facts).s
\* The order entries the loop has reached whose template matched, in order.
MatchedVisited == SelectSeq([i \in 1..Len(events) |-> i], EntryMatched)
\* C16: the debug calls of a call are, in hierarchy order, one call for each
\* order entry the loop has reached whose template resolution matched, with
\* the resolved key, and none for an unmatched entry; the loop reaches each
\* order entry at most once and in order, and in first mode reaches no entry
\* after the one whose override was applied; without a logger there is no
\* debug call.
C16_LoggerDiscipline ==
    /\ Len(events) <= Len(order)
    /\ \A j \in 1..Len(events) : events[j].i = j
    /\ mergeMode = <<"first">> =>
          \A j \in 1..(Len(events) - 1) : events[j].outcome # "first"
    /\ ~log => logCalls = <<>>
    /\ log => logCalls = [j \in 1..Len(MatchedVisited) |-> EntryKey(MatchedVisited[j])]
\* A first-mode call with a logger that has returned after an unmatched
\* first entry and one debug call, for the second entry, whose override it
\* applied.
C16_Witness ==
    /\ log
    /\ pc = "done"
    /\ mergeMode = <<"first">>
    /\ Len(order) = 2
    /\ Len(events) = 2
    /\ events[1].outcome = "unmatched"
    /\ events[2].outcome = "first"
    /\ logCalls = <<events[2].key>>
\* A first-mode call with a logger that has returned after one debug call,
\* for the first entry, whose override it applied, while the second entry
\* would match too.
C16_FirstStops ==
    /\ log
    /\ pc = "done"
    /\ mergeMode = <<"first">>
    /\ Len(order) = 2
    /\ Len(events) = 1
    /\ EntryMatched(2)
    /\ logCalls = <<events[1].key>>


\* The call as a record, without its logger and the debug calls made.
Call ==
    [heap |-> heap, pc |-> pc, root |-> root, facts |-> facts,
     options |-> options, nroot |-> nroot, overrides |-> overrides,
     order |-> order, mergeMode |-> mergeMode, hasData |-> hasData,
     base |-> base, idx |-> idx, result |-> result, err |-> err]
\* C17: every step of a call, with a logger or without one, leaves the
\* accumulator, the position in the order, the result and the error as the
\* step computed without the logger leaves them, and leaves the logger, the
\* document, the facts and the options as they were: calls that differ in the
\* logger alone go through the same locals and return the same result map and
\* the same error.
C17_LoggerNonInterference == [][Call' \in Successors(Call) /\ log' = log]_vars
\* A call with a logger that has returned a result after two debug calls and
\* a merge.
C17_Witness ==
    /\ log
    /\ pc = "done"
    /\ Len(logCalls) = 2
    /\ Len(AppliedEvents) >= 1
    /\ Res # seeded

\* The environments genExprEnv has built in the call: each is a clone of the
\* facts made for one serialization, with the lookup function bound to it.
FactsSnapshots ==
    {a \in 1..Len(heap) :
        /\ heap[a].k = "map"
        /\ <<"lookup">> \in DOMAIN heap[a].m
        /\ heap[a].m[<<"lookup">>] = Func}
\* C18: a call serializes the facts into a snapshot once: whatever the number
\* of expressions it has evaluated in hierarchy entries, base-data values and
\* override values, there is never more than the one serialization of the
\* facts that every lookup reads.
C18_SingleSnapshot == Cardinality(FactsSnapshots) <= 1


\* What a call that has ended hands back: how it ended, the structure of the
\* result map and the error.
Ended(st) == st.pc \in {"done", "failed", "panicked"}
Outcome(st) ==
    [pc |-> st.pc, result |-> Deref(st.heap, st.result), err |-> st.err]
\* The outcomes of a call that runs from its start to its end with no other
\* call in flight.
RECURSIVE RunAlone(_)
RunAlone(st) ==
    IF Ended(st) THEN {Outcome(st)}
    ELSE UNION {RunAlone(t) : t \in Successors(st)}
AloneOutcomes(doc, fcts, opts) ==
    Bind(Build(<<>>, doc), LAMBDA bd :
    Bind(Build(bd.h, fcts), LAMBDA bf :
        RunAlone(NewCall(bf.h, bd.v, bf.v, opts))))
\* The second call on the heap of this state.
Peer == [peer EXCEPT !.heap = heap]
\* The nodes a call can read: those its arguments, locals and result reach.
Reads(st) ==
    Reach(heap, st.root) \cup Reach(heap, st.facts) \cup Reach(heap, st.nroot)
    \cup Reach(heap, st.overrides) \cup Reach(heap, st.base)
    \cup Reach(heap, st.result)
\* The nodes of the heap a step has written.
Written == {a \in 1..Len(heap) : heap'[a] # heap[a]}
\* C19: in every interleaving of the steps of two calls over documents and
\* facts of their own, a call that has ended has ended as it does when run
\* alone, with the same result map and error, also when the other call had
\* returned before it started; the nodes one call can read are none of those
\* the other can, and no step of a call writes a node the other call can read.
C19_ConcurrentResolutions ==
    /\ [](/\ Ended(Call) => Outcome(Call) \in AloneOutcomes(doc0, facts0, options)
          /\ Ended(Peer) =>
                Outcome(Peer) \in AloneOutcomes(peer.doc0, peer.facts0, peer.options)
          /\ Reads(Call) \cap Reads(Peer) = {})
    /\ [][IF peer' # peer THEN Written \cap Reads(Call) = {}
                          ELSE Written \cap Reads(Peer) = {}]_vars
\* Both calls have returned results, which differ, after interleaved steps:
\* the second call normalised its document after the first did and before the
\* first seeded its accumulator, and merged into its own after the first.
C19_Witness ==
    /\ pc = "done"
    /\ peer.pc = "done"
    /\ Res # Deref(heap, peer.result)
    /\ Len(AppliedEvents) >= 1
    /\ facts0 # peer.facts0
    /\ nroot.a < peer.nroot.a
    /\ peer.nroot.a < result.a
    /\ result.a < peer.result.a


\* C20: the map deepMerge returns shares no Mapping or Sequence node with its
\* target or with its source at any depth: for the deep merge that the next
\* pass of the loop performs, of the accumulator (target) and the expanded
\* fragment (source), no node the merged map reaches is reached from the
\* target or from the source.
C20_DeepMergeIsolation ==
    (pc = "iterate" /\ idx <= Len(order)) =>
        \A r \in {resolveEntry(heap, order[idx], facts, overrides, base, hasData,
                               mergeMode, dataKeyOf(options))} :
            r.outcome = "deep" =>
                Reach(r.h, r.base)
                    \cap (Reach(r.h, base) \cup Reach(r.h, r.candidate)) = {}
\* The isolation from the target alone: the merged map shares no node with
\* the target.
DeepMergeTargetIsolated ==
    (pc = "iterate" /\ idx <= Len(order)) =>
        \A r \in {resolveEntry(heap, order[idx], facts, overrides, base, hasData,
                               mergeMode, dataKeyOf(options))} :
            r.outcome = "deep" => Reach(r.h, r.base) \cap Reach(r.h, base) = {}


\* The calls that give each pair of sections and facts once: those without
\* a logger on the document with an empty order and merge mode deep.
EachInputOnce ==
    /\ pc = "start"
    /\ ~log
    /\ <<"hierarchy">> \in DOMAIN doc0.m
    /\ doc0.m[<<"hierarchy">>] = HierarchyOf(<<>>, S("deep"))
\* A node as a mutation of it leaves it: emptied.
Emptied(node) == IF node.k = "map" THEN EmptyMap ELSE SeqNode(<<>>)
\* C21: cloneMap of a map of the caller, its document or its facts, returns a
\* map structurally equal to the source whose Mapping and Sequence nodes are
\* at every depth fresh ones, the nodes there were being left as they were;
\* a write to any node of the clone, nested maps and sequences included,
\* leaves the source structurally as it was.
C21_DeepClone ==
    EachInputOnce =>
        \A src \in {root, facts} : \A c \in {cloneMap(heap, src)} :
            /\ Deref(c.h, c.v) = Deref(heap, src)
            /\ Reach(c.h, c.v) \cap (1..Len(heap)) = {}
            /\ \A a \in 1..Len(heap) : c.h[a] = heap[a]
            /\ \A a \in Reach(c.h, c.v) :
                  Deref([c.h EXCEPT ![a] = Emptied(c.h[a])], src) = Deref(heap, src)
\* A document whose clone has a Mapping inside a Sequence inside a Mapping
\* inside a Mapping, each of them a fresh node.
C21_Witness ==
    /\ pc = "start"
    /\ \E c \in {cloneMap(heap, root)} :
          \E a \in Reach(c.h, c.v) :
             /\ a > Len(heap)
             /\ c.h[a].k = "seq"
             /\ \E i \in 1..Len(c.h[a].s) :
                   /\ c.h[a].s[i].k = "ref"
                   /\ c.h[a].s[i].a > Len(heap)
                   /\ c.h[c.h[a].s[i].a].k = "map"


\* The per-key rule on structures: a key of one map only keeps its value; a
\* key of both holds the merge of two Mappings, the concatenation of two
\* Sequences, and else the value of b.
RECURSIVE DeepOver(_, _)
DeepOver(a, b) ==
    MapNode([x \in DOMAIN a.m \cup DOMAIN b.m |->
        IF x \notin DOMAIN b.m THEN a.m[x]
        ELSE IF x \notin DOMAIN a.m THEN b.m[x]
        ELSE IF a.m[x].k = "map" /\ b.m[x].k = "map" THEN DeepOver(a.m[x], b.m[x])
        ELSE IF a.m[x].k = "seq" /\ b.m[x].k = "seq"
             THEN SeqNode(a.m[x].s \o b.m[x].s)
        ELSE b.m[x]])
\* The maps of the caller: the facts and every Mapping of the document one
\* or two levels below its root (the sections and the override fragments).
CallerMaps ==
    {v \in {facts} \cup UNION {{Entries(heap, root)[x]} \cup
                                 (IF IsMapVal(heap, Entries(heap, root)[x])
                                  THEN {Entries(heap, Entries(heap, root)[x])[y] :
                                           y \in DOMAIN Entries(heap, Entries(heap, root)[x])}
                                  ELSE {}) : x \in DOMAIN Entries(heap, root)} :
        IsMapVal(heap, v)}
\* C22: deepMerge(target, source) returns the map that the per-key rule
\* gives: the keys of target alone with target's values, the keys of source
\* alone with source's values, and for a key of both the recursive merge of
\* two Mappings, target's elements followed by source's for two Sequences,
\* and source's value for every other combination.
C22_DeepMergeRule ==
    EachInputOnce =>
        \A target \in CallerMaps, source \in CallerMaps :
            \A m \in {deepMerge(heap, target, source)} :
                Deref(m.h, m.v) = DeepOver(Deref(heap, target), Deref(heap, source))
\* A caller with a pair of maps that hold, under keys of both, a Mapping
\* against a Sequence and a Sequence against a Mapping, and keys that only
\* one of them has; with a pair that holds two Mappings and two scalars under
\* keys of both; and with a pair that holds two Sequences, of one and of two
\* elements, which the merge concatenates.
C22_Witness ==
    /\ EachInputOnce
    /\ \E target \in CallerMaps, source \in CallerMaps :
          \E t \in {Deref(heap, target)}, s \in {Deref(heap, source)} :
             /\ \E x \in DOMAIN t.m \cap DOMAIN s.m : t.m[x].k = "map" /\ s.m[x].k = "seq"
             /\ \E x \in DOMAIN t.m \cap DOMAIN s.m : t.m[x].k = "seq" /\ s.m[x].k = "map"
             /\ DOMAIN t.m \ DOMAIN s.m # {}
             /\ DOMAIN s.m \ DOMAIN t.m # {}
    /\ \E target \in CallerMaps, source \in CallerMaps :
          \E t \in {Deref(heap, target)}, s \in {Deref(heap, source)} :
             /\ \E x \in DOMAIN t.m \cap DOMAIN s.m : t.m[x].k = "map" /\ s.m[x].k = "map"
             /\ \E x \in DOMAIN t.m \cap DOMAIN s.m : IsScalar(t.m[x]) /\ IsScalar(s.m[x])
    /\ \E target \in CallerMaps, source \in CallerMaps :
          \E t \in {Deref(heap, target)}, m \in {deepMerge(heap, target, source)} :
             \E x \in DOMAIN t.m \cap DOMAIN Entries(heap, source) :
                /\ t.m[x].k = "seq"
                /\ Len(t.m[x].s) = 1
                /\ Deref(m.h, m.v).m[x].k = "seq"
                /\ Len(Deref(m.h, m.v).m[x].s) = 3


\* C23: in merge mode first the result of a call that applied a fragment has
\* the top-level keys of the base data and of the fragment; under every key
\* of the fragment it holds exactly the expanded fragment's value, also when
\* the base data holds a Mapping or a Sequence there (no nested key of the
\* base is kept, no sequence is concatenated), and under every other key the
\* value of the base data.
C23_FirstIsShallow ==
    (pc = "done" /\ mergeMode = <<"first">> /\ Len(AppliedEvents) > 0) =>
        \E f \in {AppliedEvents[Len(AppliedEvents)].fragment} :
            /\ Len(AppliedEvents) = 1
            /\ DOMAIN Res.m = DOMAIN seeded.m \cup DOMAIN f.m
            /\ \A x \in DOMAIN f.m : Res.m[x] = f.m[x]
            /\ \A x \in DOMAIN seeded.m \ DOMAIN f.m : Res.m[x] = seeded.m[x]
\* A first-mode result whose fragment and base data both hold a Mapping under
\* one key, the base's with a nested key the fragment's lacks, which the
\* result lacks too, while a key of the base data alone is kept.
C23_Witness ==
    /\ pc = "done"
    /\ mergeMode = <<"first">>
    /\ Len(AppliedEvents) = 1
    /\ \E f \in {AppliedEvents[1].fragment} :
          \E x \in DOMAIN f.m \cap DOMAIN seeded.m :
             /\ f.m[x].k = "map" /\ seeded.m[x].k = "map"
             /\ DOMAIN seeded.m[x].m \ DOMAIN f.m[x].m # {}
             /\ DOMAIN Res.m[x].m = DOMAIN f.m[x].m
             /\ DOMAIN seeded.m \ DOMAIN f.m # {}
\* A first-mode result whose fragment and base data both hold a Sequence
\* under one key, the result's being the fragment's alone.
FirstKeepsFragmentSequence ==
    /\ pc = "done"
    /\ mergeMode = <<"first">>
    /\ Len(AppliedEvents) = 1
    /\ \E f \in {AppliedEvents[1].fragment} :
          \E x \in DOMAIN f.m \cap DOMAIN seeded.m :
             /\ f.m[x].k = "seq" /\ seeded.m[x].k = "seq"
             /\ Len(seeded.m[x].s) >= 1
             /\ Res.m[x] = f.m[x]


\* The values of the spans of a template, each as exprParse gives it.
SpanResults(t) ==
    [i \in 1..Len(FindAll(t)) |-> exprParse(heap, Capture(t, FindAll(t)[i]), facts)]
\* The literal text of a template up to its span i with the spans before
\* replaced by their stringified values, and that text with span i replaced.
RECURSIVE Replaced(_, _, _)
Replaced(t, rs, i) ==
    IF i = 0 THEN <<>>
    ELSE Replaced(t, rs, i - 1)
         \o SubSeq(t, IF i = 1 THEN 1 ELSE FindAll(t)[i - 1].fe, FindAll(t)[i].fs - 1)
         \o Sprint(rs[i].h, rs[i].v)
\* C24: for a template whose spans all evaluate, applyFactsString returns
\* matched true exactly when some span's value is a non-empty string or a
\* value that is neither null nor a string, and the template's literal text
\* with each span replaced by its stringified value; a template without a
\* span comes back unchanged, matched exactly when it is not empty.
C24_MatchedFlag ==
    EachInputOnce =>
        \A t \in StringTemplates :
            \E r \in {applyFactsString(heap, t, facts)}, rs \in {SpanResults(t)} :
                IF Len(rs) = 0
                THEN r.errs = NoErr /\ r.s = t /\ (r.matched <=> t # <<>>)
                ELSE (\A i \in 1..Len(rs) : rs[i].errs = NoErr) =>
                        /\ r.errs = NoErr
                        /\ r.matched <=>
                              \E i \in 1..Len(rs) :
                                 \/ rs[i].v.k = "string" /\ rs[i].v.s # <<>>
                                 \/ rs[i].v.k \notin {"string", "null"}
                        /\ r.s = Replaced(t, rs, Len(rs))
                                 \o SubSeq(t, FindAll(t)[Len(rs)].fe, Len(t))
\* Facts for which one template of two spans is matched by one span alone,
\* the other being empty, another of two spans is unmatched, both being
\* empty, and a template of one span whose value is a Sequence is matched.
C24_Witness ==
    /\ EachInputOnce
    /\ \E t \in StringTemplates : \E r \in {applyFactsString(heap, t, facts)} :
          /\ Len(SpanResults(t)) = 2
          /\ SpanResults(t)[2].v = Str(<<>>)
          /\ SpanResults(t)[1].v.k = "string" /\ SpanResults(t)[1].v.s # <<>>
          /\ r.matched
          /\ Len(r.s) >= 2
    /\ \E t \in StringTemplates : \E r \in {applyFactsString(heap, t, facts)} :
          /\ Len(SpanResults(t)) = 2
          /\ r.errs = NoErr
          /\ ~r.matched
          /\ r.s = <<>>
    /\ \E t \in StringTemplates : \E r \in {applyFactsString(heap, t, facts)} :
          /\ Len(SpanResults(t)) = 1
          /\ r.errs = NoErr
          /\ SpanResults(t)[1].v.k = "ref"
          /\ r.matched


\* The template, trimmed, is exactly one span: it has one span, with nothing
\* but spaces before and after it.
ExactlyOneSpan(t) ==
    /\ Len(FindAll(t)) = 1
    /\ \A i \in 1..(FindAll(t)[1].fs - 1) : t[i] = " "
    /\ \A i \in FindAll(t)[1].fe..Len(t) : t[i] = " "
\* C25: applyFactsTyped returns a string without a span unchanged, the value
\* exprParse gives for the span when the trimmed string is exactly one span,
\* and for every other string with a span, text around one span or several
\* spans, the string applyFactsString returns, with all its literal text.
C25_TypedModeSelection ==
    EachInputOnce =>
        \A t \in StringTemplates :
            \E r \in {applyFactsTyped(heap, t, facts)} :
                IF Len(FindAll(t)) = 0 THEN r.errs = NoErr /\ r.v = Str(t)
                ELSE IF ExactlyOneSpan(t)
                THEN \E e \in {exprParse(heap, Capture(t, FindAll(t)[1]), facts)} :
                        /\ r.errs = e.errs
                        /\ e.errs = NoErr => Deref(r.h, r.v) = Deref(e.h, e.v)
                ELSE \E a \in {applyFactsString(heap, t, facts)} :
                        /\ r.errs = a.errs
                        /\ a.errs = NoErr => r.v = Str(a.s)
\* What the code does select on: one span, and a trimmed string that starts
\* with an opening and ends with a closing brace pair.
TypedModeAsCoded ==
    EachInputOnce =>
        \A t \in StringTemplates :
            \E r \in {applyFactsTyped(heap, t, facts)} :
                IF Len(FindAll(t)) = 0 THEN r.errs = NoErr /\ r.v = Str(t)
                ELSE IF /\ Len(FindAll(t)) = 1
                        /\ HasPrefix2(TrimSpace(t), "{")
                        /\ HasSuffix2(TrimSpace(t), "}")
                THEN \E e \in {exprParse(heap, Capture(t, FindAll(t)[1]), facts)} :
                        /\ r.errs = e.errs
                        /\ e.errs = NoErr => Deref(r.h, r.v) = Deref(e.h, e.v)
                ELSE \E a \in {applyFactsString(heap, t, facts)} :
                        /\ r.errs = a.errs
                        /\ a.errs = NoErr => r.v = Str(a.s)


\* C26: with base data, an order entry whose resolved key is the configured
\* data key is skipped: no fragment is merged under that key, and the loop
\* goes on after it, so that a first-mode call that returns a result has
\* applied the first later entry that matches and names a fragment; without
\* base data the entry is treated as any other: its fragment, if overrides
\* holds one under that key, is merged, and else it is skipped as absent.
C26_AliasSkip ==
    \A j \in 1..Len(events) :
        (events[j].outcome # "error" /\ EntryMatched(j)
            /\ EntryKey(j) = options.dataKey) =>
            IF hasData
            THEN /\ events[j].outcome = "alias"
                 /\ (pc = "done" /\ mergeMode = <<"first">>) =>
                       \A i \in (j + 1)..Len(order) :
                           (Applies(i) /\ \A k \in (j + 1)..(i - 1) : ~Applies(k)) =>
                               /\ Len(events) = i
                               /\ events[i].outcome = "first"
            ELSE IF OverrideFragment(options.dataKey)
                 THEN IsMerge(events[j]) \/ mergeMode \notin {<<"first">>, <<"deep">>}
                 ELSE events[j].outcome = "absent"
\* A first-mode result of a document with base data and a fragment under
\* overrides["data"]: the first entry, data, was skipped as the alias and the
\* second entry's fragment was applied; the result holds nothing of the
\* fragment under the data key.
C26_Witness ==
    /\ pc = "done"
    /\ mergeMode = <<"first">>
    /\ hasData
    /\ OverrideFragment(options.dataKey)
    /\ Len(events) = 2
    /\ events[1].outcome = "alias"
    /\ events[1].key = options.dataKey
    /\ events[2].outcome = "first"
    /\ Res.m[<<"log_level">>] # S("ALIAS")
\* A result of a document without base data whose fragment under
\* overrides["data"] was merged.
AliasKeyAppliedWithoutBase ==
    /\ pc = "done"
    /\ ~hasData
    /\ \E j \in 1..Len(events) :
          /\ events[j].key = options.dataKey
          /\ IsMerge(events[j])
    /\ Res.m[<<"log_level">>] = S("ALIAS")


(***************************************************************************)
(* Evaluation errors and the expression they name                          *)
(***************************************************************************)
\* The error names the expression: it has the text of an expression, and
\* evaluating that text against the call's facts fails with this very error.
NamesExpression(e) ==
    /\ "expr" \in DOMAIN e
    /\ exprParse(heap, e.expr, facts).errs = {e}

\* C27: every failure to compile an expression and every failure while
\* running it makes Resolve fail with an evaluation error that carries the
\* text of the offending expression.
C27_EvalErrorCarriesExpression ==
    (pc = "failed" /\ err.kind \in {"compile", "run"}) => NamesExpression(err)

\* What the code does: the error of a failed compilation carries the text.
CompileErrorCarriesExpression ==
    (pc = "failed" /\ err.kind = "compile") => NamesExpression(err)


(***************************************************************************)
(* Abnormal aborts                                                         *)
(***************************************************************************)
\* C28: for every document whose root is a Mapping, Resolve completes with a
\* result or with an error value and never aborts abnormally, also when the
\* overrides section is present and is not a Mapping.
C28_NoAbnormalAbort == pc # "panicked"

\* What the code does: the call aborts exactly when the document has an
\* overrides section that is no Mapping, and it aborts before the hierarchy is
\* parsed.
AbortsOnOverridesNoMapping ==
    pc \notin {"start"} =>
        (pc = "panicked" <=>
            (/\ <<"overrides">> \in DOMAIN doc0.m
             /\ ~KeyIsMap(heap, nroot, <<"overrides">>)))


(***************************************************************************)
(* Fragments are expanded when they are merged                             *)
(***************************************************************************)
EvalKinds == {"compile", "run", "marshal"}
\* The errors of expanding the Mapping under key of the Mapping m.
ExpansionErrs(m, key) ==
    IF KeyIsMap(heap, m, key)
    THEN expandMapExprValues(heap, Entries(heap, m)[key], facts).errs
    ELSE NoErr
\* The fragments of the overrides section whose expansion would fail.
FailingFragments ==
    {key \in DOMAIN doc0.m[<<"overrides">>].m :
        OverrideFragment(key) /\ ExpansionErrs(overrides, key) # NoErr}
\* The keys the loop has selected: those of the reached entries that apply.
SelectedKeys == {EntryKey(i) : i \in {j \in 1..Len(events) : Applies(j)}}

\* C29: the placeholders of an override fragment are evaluated only when the
\* fragment is selected for merging: a call fails with an evaluation error
\* only on the base data, on the template of the order entry the loop is at,
\* or on the fragment that entry selects, and in first mode no entry before
\* it applied; a fragment that is never selected, failing expression or not,
\* never makes the call fail.
C29_LazyFragmentExpansion ==
    (pc = "failed" /\ err.kind \in EvalKinds) =>
        IF events = <<>>
        THEN err \in ExpansionErrs(nroot, dataKeyOf(options))
        ELSE /\ \/ err \in applyFactsString(heap, order[Len(events)], facts).errs
                \/ /\ Applies(Len(events))
                   /\ err \in ExpansionErrs(overrides, EntryKey(Len(events)))
             /\ mergeMode = <<"first">> =>
                   \A j \in 1..(Len(events) - 1) : ~Applies(j)
\* A deep-mode call that merged a fragment and returned a result although the
\* overrides section holds a fragment with a failing expression that no order
\* entry selected.
C29_Witness ==
    /\ pc = "done"
    /\ mergeMode = <<"deep">>
    /\ SelectedKeys # {}
    /\ FailingFragments # {}
    /\ FailingFragments \cap SelectedKeys = {}
\* A first-mode call that returned the first applied fragment although a
\* later order entry selects a fragment with a failing expression.
FirstStopsBeforeFailingFragment ==
    /\ pc = "done"
    /\ mergeMode = <<"first">>
    /\ Len(events) < Len(order)
    /\ \E i \in (Len(events) + 1)..Len(order) :
          Applies(i) /\ EntryKey(i) \in FailingFragments


(***************************************************************************)
(* The keys of the accumulator in deep mode                                *)
(***************************************************************************)
BaseKeys == DOMAIN Entries(heap, base)
\* The top-level keys of the document's base data, none without the section.
DataKeys ==
    IF KeyIsMap(heap, nroot, dataKeyOf(options))
    THEN DOMAIN doc0.m[dataKeyOf(options)].m
    ELSE {}
\* The top-level keys of the fragments the order entries select.
FragmentKeys ==
    UNION {DOMAIN doc0.m[<<"overrides">>].m[EntryKey(i)].m :
              i \in {j \in 1..Len(order) : Applies(j)}}
\* After seeding and after every pass of the loop the accumulator has every
\* top-level key it had before.
BaseKeysGrow ==
    (pc = "iterate" /\ mergeMode = <<"deep">>) =>
        (BaseKeys \subseteq DOMAIN Entries(heap', base'))
\* C30: in deep mode the accumulator keeps every top-level key it has, from
\* the seed on and over every iteration of hierarchy.order, and the result's
\* top-level keys are those of the base data together with those of all
\* applied fragments.
C30_KeyMonotonicity ==
    /\ [][BaseKeysGrow]_vars
    /\ []((pc = "iterate" /\ mergeMode = <<"deep">>) => DataKeys \subseteq BaseKeys)
    /\ []((pc = "done" /\ mergeMode = <<"deep">>) =>
            DOMAIN Res.m = DataKeys \cup FragmentKeys)
\* A deep-mode call that returned after merging two fragments into base data:
\* the second fragment has a key neither the base data nor the first has, and
\* the base data has a key no fragment has.
C30_Witness ==
    /\ pc = "done"
    /\ mergeMode = <<"deep">>
    /\ Len(AppliedEvents) = 2
    /\ DOMAIN AppliedEvents[2].fragment.m
          \ (DataKeys \cup DOMAIN AppliedEvents[1].fragment.m) # {}
    /\ DataKeys \ FragmentKeys # {}

====
